---- MODULE Spec2Model ----
(***************************************************************************)
(* A model of the knowledge-base application: the PDF text extraction and  *)
(* OCR rescan loops (services/pdfUtils.ts), the file-type dispatch         *)
(* (services/fileUtils.ts), the upload handler (App.tsx), the cloud/local  *)
(* persistence fallback (services/firebaseService.ts) and the chat context *)
(* (App.tsx).                                                              *)
(***************************************************************************)
EXTENDS Integers, Sequences, FiniteSets, Bags, TLC

VARIABLES
    job,              \* the extractions / uploads in progress, by job id
    inflight,         \* the requests to pdf.js and to /api/ocr being awaited
    scan,             \* the rescans (generator and consumer), by rescan id
    files,            \* App.tsx: the `files` state (the file list of the UI)
    folders,          \* App.tsx: the `folders` state (the folder list of the UI)
    selectedFolderId, \* App.tsx: the `selectedFolderId` state
    searchTerm,       \* App.tsx: the `searchTerm` state
    input,            \* ChatWidget: the `input` state (the text typed)
    isChatLoading,    \* App.tsx: the `isChatLoading` state
    chatRequests,     \* the bodies POSTed to /api/chat, in order
    cloudFiles,       \* Firestore: the documents of collection 'files'
    localFiles,       \* IndexedDB: the records of object store 'files'
    cloudFolders,     \* Firestore: the documents of collection 'folders'
    localFolders,     \* IndexedDB: the records of object store 'folders'
    isUsingLocalMode, \* firebaseService.ts: the module flag
    authAttempted,    \* firebaseService.ts: the module flag
    currentUser,      \* auth.currentUser is set (a user is signed in)
    op                \* the withFallback calls in progress, by call id

pdfVars == <<job, inflight>>
appVars == <<files, folders, selectedFolderId, searchTerm, input, isChatLoading,
            chatRequests>>
storeVars == <<cloudFiles, localFiles, cloudFolders, localFolders>>
authVars == <<isUsingLocalMode, authAttempted, currentUser, op>>

vars == <<job, inflight, scan, files, folders, selectedFolderId, searchTerm, input,
          isChatLoading, chatRequests, cloudFiles, localFiles, cloudFolders, localFolders, isUsingLocalMode, authAttempted, currentUser, op>>

(***************************************************************************)
(* Bounds of the model.                                                    *)
(***************************************************************************)
MaxPages == 2

(***************************************************************************)
(* Program constants.                                                      *)
(***************************************************************************)
MIN_TEXT_LENGTH_FOR_OCR_PER_PAGE == 100

(***************************************************************************)
(* Strings.  A text is modelled by the identity of its characters (chars)  *)
(* and its layout: `pre` leading white-space characters, `body` characters *)
(* from the first to the last non-white-space one, `post` trailing         *)
(* white-space characters.  A text without a non-white-space character has *)
(* body = 0, post = 0 and chars = "".                                      *)
(***************************************************************************)
Text(c, pre, body, post) == [chars |-> c, pre |-> pre, body |-> body, post |-> post]

EmptyText == Text("", 0, 0, 0)

\* String.prototype.length
Length(t) == t.pre + t.body + t.post

\* String.prototype.trim
Trim(t) == IF t.body = 0 THEN EmptyText ELSE [t EXCEPT !.pre = 0, !.post = 0]

\* the truthiness of a string: '' is falsy
Truthy(t) == Length(t) > 0

Pads == {0, 1}

BodyLens == {MIN_TEXT_LENGTH_FOR_OCR_PER_PAGE - 1,
             MIN_TEXT_LENGTH_FOR_OCR_PER_PAGE,
             MIN_TEXT_LENGTH_FOR_OCR_PER_PAGE + 1}

\* the texts with characters c: the empty and white-space-only ones included
TextsOf(c) ==
    {Text("", pre, 0, 0) : pre \in Pads}
    \cup {Text(c, pre, b, post) : pre \in Pads, b \in BodyLens, post \in Pads}

\* the sequences over S of length at most n
SeqUpTo(S, n) == UNION {[1..k -> S] : k \in 0..n}

(***************************************************************************)
(* services/pdfUtils.ts: extractTextFromPdf and extractTextFromPdfUrl.     *)
(* A PDF is the sequence of the texts of its pages' text layers            *)
(* (processPageForText: the items' strings joined by ' ').                 *)
(***************************************************************************)
PdfDocs == SeqUpTo(TextsOf("pdf"), MaxPages)

PageName(i) == <<"Page", i>>

KnowledgeFileContent(n, t) == [name |-> n, text |-> t]

NoResult == [content |-> <<>>, ocrStatus |-> "none"]

\* fileUtils.ts: ExtractionResult, and none yet
NoExtraction == [content |-> <<>>, ocrStatus |-> "none", contentLength |-> 0]

\* no KnowledgeFile: null
NoFile == [id |-> 0]

PageRequest(j, kind, i) == [owner |-> <<"file", j>>, kind |-> kind, page |-> i]

\* a job: one call of extractTextFromPdf (kind "file"), of
\* extractTextFromPdfUrl (kind "url") or of processAndUploadFile
NewJob(kind, caller, file, folderId, pc) ==
    [kind |-> kind, caller |-> caller, file |-> file, folderId |-> folderId,
     pc |-> pc, numPages |-> 0, i |-> 0, pageContents |-> <<>>,
     totalTextLength |-> 0, pdfResult |-> NoResult, error |-> "none",
     result |-> NoExtraction, saved |-> NoFile]

\* pdfUtils.ts:81 and :118.  totalTextLength / numPages is a floating-point
\* division; for the integer threshold, quotient < threshold exactly when the
\* integer quotient is below it.
OcrRecommendedLoose(totalTextLength, numPages) ==
    numPages > 0
    /\ (totalTextLength \div numPages) <= MIN_TEXT_LENGTH_FOR_OCR_PER_PAGE

OcrRecommended(totalTextLength, numPages) ==
    numPages > 0
    /\ (totalTextLength \div numPages) < MIN_TEXT_LENGTH_FOR_OCR_PER_PAGE

\* the end of the page loop: the status and resolve / return
ResolvePdf(x) ==
    [x EXCEPT !.pc = "resolved",
              !.pdfResult =
                  [content |-> x.pageContents,
                   ocrStatus |-> IF OcrRecommended(x.totalTextLength, x.numPages)
                                 THEN "ocr_recommended" ELSE "text_only"]]

\* the catch blocks: the promise is rejected with a new Error
RejectPdf(x) ==
    [x EXCEPT !.pc = "rejected",
              !.error = IF x.kind = "url"
                        THEN "Could not parse the PDF file from URL."
                        ELSE "Could not parse the PDF file."]

\* the head of `for (let i = 1; i <= pdf.numPages; i++)`: the code runs on
\* to `await pdf.getPage(i)` or past the loop to the end
LoopHead(x) ==
    IF x.i <= x.numPages THEN [x EXCEPT !.pc = "getPage"] ELSE ResolvePdf(x)

\* pdfUtils.ts:76-77: one page is requested per turn of the loop
LoopRequestsAllPages(j, x) ==
    {PageRequest(j, "getPage", k) : k \in x.i..x.numPages}

LoopRequests(j, x) ==
    IF x.i <= x.numPages THEN {PageRequest(j, "getPage", x.i)} ELSE {}

\* fileReader.readAsArrayBuffer(file) and its onload / onerror callbacks
ReadAsArrayBuffer(j) ==
    /\ job[j].pc = "readAsArrayBuffer"
    /\ \E outcome \in {"load", "empty", "error"} :
         job' = [job EXCEPT ![j] =
                   CASE outcome = "load"  -> [@ EXCEPT !.pc = "getDocument"]
                     [] outcome = "empty" -> [@ EXCEPT !.pc = "rejected",
                                                       !.error = "Failed to read file."]
                     [] outcome = "error" -> [@ EXCEPT !.pc = "rejected",
                                                       !.error = "ProgressEvent"]]
    /\ UNCHANGED <<inflight, scan, appVars, storeVars, authVars>>

\* `await pdfjsLib.getDocument(...).promise` settles
GetDocument(j) ==
    /\ job[j].pc = "getDocument"
    /\ \E ok \in BOOLEAN :
         IF ok
         THEN LET x == [job[j] EXCEPT !.numPages = Len(job[j].file.pdf), !.i = 1]
              IN /\ job' = [job EXCEPT ![j] = LoopHead(x)]
                 /\ inflight' = inflight \cup LoopRequests(j, x)
         ELSE /\ job' = [job EXCEPT ![j] = RejectPdf(@)]
              /\ UNCHANGED inflight
    /\ UNCHANGED <<scan, appVars, storeVars, authVars>>

\* `await pdf.getPage(i)` settles; processPageForText calls getTextContent
GetPage(j) ==
    /\ job[j].pc = "getPage"
    /\ PageRequest(j, "getPage", job[j].i) \in inflight
    /\ \E ok \in BOOLEAN :
         IF ok
         THEN /\ job' = [job EXCEPT ![j].pc = "getTextContent"]
              /\ inflight' = (inflight \ {PageRequest(j, "getPage", job[j].i)})
                                \cup {PageRequest(j, "getTextContent", job[j].i)}
         ELSE /\ job' = [job EXCEPT ![j] = RejectPdf(@)]
              /\ inflight' = inflight \ {PageRequest(j, "getPage", job[j].i)}
    /\ UNCHANGED <<scan, appVars, storeVars, authVars>>

\* `await page.getTextContent()` settles: push the page, add its trimmed
\* length, i++, and on to the next page or to the end
GetTextContent(j) ==
    /\ job[j].pc = "getTextContent"
    /\ PageRequest(j, "getTextContent", job[j].i) \in inflight
    /\ \E ok \in BOOLEAN :
         IF ok
         THEN LET pageText == job[j].file.pdf[job[j].i]
                  x == [job[j] EXCEPT
                          !.pageContents =
                              Append(@, KnowledgeFileContent(PageName(job[j].i), pageText)),
                          !.totalTextLength = @ + Length(Trim(pageText)),
                          !.i = @ + 1]
              IN /\ job' = [job EXCEPT ![j] = LoopHead(x)]
                 /\ inflight' = (inflight \ {PageRequest(j, "getTextContent", job[j].i)})
                                   \cup LoopRequests(j, x)
         ELSE /\ job' = [job EXCEPT ![j] = RejectPdf(@)]
              /\ inflight' = inflight \ {PageRequest(j, "getTextContent", job[j].i)}
    /\ UNCHANGED <<scan, appVars, storeVars, authVars>>

(***************************************************************************)
(* The parts of the state a specification does not exercise.               *)
(***************************************************************************)
\* types.ts: Folder (the name, which no operation reads, is left out)
Folder(id, parentId, isLocked) == [id |-> id, parentId |-> parentId, isLocked |-> isLocked]

\* { id: 'root', name: ..., parentId: null }
RootFolder == Folder("root", "null", FALSE)

InitApp ==
    /\ files = <<>>
    /\ folders = {}
    /\ selectedFolderId = "root"
    /\ searchTerm = ""
    /\ input = EmptyText
    /\ isChatLoading = FALSE
    /\ chatRequests = <<>>

\* the App once loadData has run on an empty knowledge base
InitLoaded ==
    /\ files = <<>>
    /\ folders = {RootFolder}
    /\ selectedFolderId = "root"
    /\ searchTerm = ""
    /\ input = EmptyText
    /\ isChatLoading = FALSE
    /\ chatRequests = <<>>

InitStore ==
    /\ cloudFiles = {}
    /\ localFiles = {}
    /\ cloudFolders = {}
    /\ localFolders = {}
    /\ isUsingLocalMode = FALSE
    /\ authAttempted = FALSE
    /\ currentUser = FALSE
    /\ op = <<>>

(***************************************************************************)
(* The specification of one PDF extraction, from a file or from a URL.     *)
(***************************************************************************)
PdfFile(pdf) == [name |-> <<"doc", ".", "pdf">>, type |-> <<"application", "/", "pdf">>,
                 pdf |-> pdf, text |-> EmptyText]

InitExtract ==
    /\ \E kind \in {"file", "url"}, pdf \in PdfDocs :
         job = <<NewJob(kind, "none", PdfFile(pdf), "root",
                        IF kind = "file" THEN "readAsArrayBuffer" ELSE "getDocument")>>
    /\ inflight = {}
    /\ scan = <<>>
    /\ InitApp
    /\ InitStore

NextExtract ==
    \/ \E j \in DOMAIN job : ReadAsArrayBuffer(j)
    \/ \E j \in DOMAIN job : GetDocument(j)
    \/ \E j \in DOMAIN job : GetPage(j)
    \/ \E j \in DOMAIN job : GetTextContent(j)

SpecExtract == InitExtract /\ [][NextExtract]_vars

RECURSIVE SumTrimmed(_)
SumTrimmed(pdf) ==
    IF pdf = <<>> THEN 0 ELSE Length(Trim(Head(pdf))) + SumTrimmed(Tail(pdf))

\* C1: a processed PDF's ocrStatus is 'ocr_recommended' exactly when it has at
\* least one page and the sum of its pages' trimmed text lengths is below
\* 100 times the page count; otherwise (a zero-page PDF included) 'text_only'.
C1_OcrStatus ==
    \A j \in DOMAIN job :
        job[j].pdfResult # NoResult =>
            job[j].pdfResult.ocrStatus =
                IF Len(job[j].file.pdf) >= 1
                   /\ SumTrimmed(job[j].file.pdf)
                        < MIN_TEXT_LENGTH_FOR_OCR_PER_PAGE * Len(job[j].file.pdf)
                THEN "ocr_recommended" ELSE "text_only"

\* a two-page PDF below the average although one page reaches the threshold
\* and the other does so only with its white space
C1_Witness ==
    \E j \in DOMAIN job :
        /\ job[j].pc = "resolved"
        /\ job[j].pdfResult.ocrStatus = "ocr_recommended"
        /\ Len(job[j].file.pdf) = 2
        /\ Length(Trim(job[j].file.pdf[1])) >= MIN_TEXT_LENGTH_FOR_OCR_PER_PAGE
        /\ Length(job[j].file.pdf[2]) >= MIN_TEXT_LENGTH_FOR_OCR_PER_PAGE

(***************************************************************************)
(* services/pdfUtils.ts: rescanPdfWithOcrGenerator, with the `for await`   *)
(* loop that consumes it (firebaseService.ts: rescanSinglePdf,             *)
(* rescanAllPdfs).                                                         *)
(***************************************************************************)
Undefined == [name |-> <<"undefined">>, text |-> EmptyText]

\* the texts a rescan distinguishes: '', 99 characters after one blank
\* (100 untrimmed), and 100 characters
ScanTexts(c) ==
    {EmptyText,
     Text(c, 1, MIN_TEXT_LENGTH_FOR_OCR_PER_PAGE - 1, 0),
     Text(c, 0, MIN_TEXT_LENGTH_FOR_OCR_PER_PAGE, 0)}

\* what /api/ocr answers with: `data.text || ''`
OcrTexts == {EmptyText, Text("ocr", 0, MIN_TEXT_LENGTH_FOR_OCR_PER_PAGE + 1, 0)}

\* the entries a stored content array may hold at (1-based) position k
StoredItems(k) ==
    {KnowledgeFileContent(PageName(k), t) : t \in ScanTexts("db")}
    \cup {KnowledgeFileContent(<<"Sheet", k>>,
                               Text("db", 0, MIN_TEXT_LENGTH_FOR_OCR_PER_PAGE, 0))}

StoredContents ==
    UNION {{c \in [1..n -> UNION {StoredItems(k) : k \in 1..MaxPages}] :
               \A k \in 1..n : c[k] \in StoredItems(k)} : n \in 0..MaxPages}

ScanRequest(r, kind, i) == [owner |-> <<"scan", r>>, kind |-> kind, page |-> i]

NewScan(caller, pdf, stored) ==
    [caller |-> caller, pdf |-> pdf, stored |-> stored, content |-> stored,
     pc |-> "start", numPages |-> 0, i |-> 0, standardText |-> EmptyText,
     yields |-> <<>>, skipped |-> {}, fetched |-> {}, extracted |-> {},
     ocrInvoked |-> {}, ocrRequested |-> {}, ocrFailed |-> {},
     startedAfter |-> {}, thrownBy |-> "none", error |-> "none",
     file |-> NoFile, updated |-> NoFile, op |-> 0]

\* the array the generator reads as `existingContent`: rescanSinglePdf passes
\* fileToUpdate.content, the array its loop writes to; rescanAllPdfs passes
\* file.content
ExistingContent(g) ==
    IF g.caller = "rescanSinglePdf" THEN g.content ELSE g.stored

\* pdfUtils.ts:147
PageIndexOneBased(i) == i

PageIndex(i) == i - 1

\* existingContent?.[pageIndex]
ExistingPageContent(g) ==
    LET a == ExistingContent(g)
        k == PageIndex(g.i) + 1
    IN IF k \in DOMAIN a THEN a[k] ELSE Undefined

\* pdfUtils.ts:151
HasSufficientTextStrict(c) ==
    /\ c # Undefined
    /\ Truthy(c.text)
    /\ Length(Trim(c.text)) > MIN_TEXT_LENGTH_FOR_OCR_PER_PAGE

HasSufficientText(c) ==
    /\ c # Undefined
    /\ Truthy(c.text)
    /\ Length(Trim(c.text)) >= MIN_TEXT_LENGTH_FOR_OCR_PER_PAGE

\* pdfUtils.ts:165
NeedsOcrLoose(standardText) ==
    Length(Trim(standardText)) <= MIN_TEXT_LENGTH_FOR_OCR_PER_PAGE

NeedsOcr(standardText) ==
    Length(Trim(standardText)) < MIN_TEXT_LENGTH_FOR_OCR_PER_PAGE

\* `yield { pageIndex, content }`: the generator is suspended until next()
Yield(g, c) ==
    [g EXCEPT !.pc = "yielded",
              !.yields = Append(@, [pageIndex |-> PageIndex(g.i), content |-> c])]

\* the outer catch: whatever was thrown becomes a new Error (its message, in
\* Japanese: an error occurred while processing the PDF)
ScanThrow(g, by) ==
    [g EXCEPT !.pc = "thrown", !.thrownBy = by,
              !.error = "An error occurred while processing the PDF."]

\* the catch around processPageWithOcr: pageText stays standardText
OcrFailedLosesText(g) ==
    Yield([g EXCEPT !.ocrFailed = @ \cup {g.i}],
          KnowledgeFileContent(PageName(g.i), EmptyText))

OcrFailed(g) ==
    Yield([g EXCEPT !.ocrFailed = @ \cup {g.i}],
          KnowledgeFileContent(PageName(g.i), g.standardText))

\* the head of the page loop, up to the first yield or await
ScanLoopHead(g) ==
    IF g.i > g.numPages THEN [g EXCEPT !.pc = "done"]
    ELSE IF HasSufficientText(ExistingPageContent(g))
         THEN Yield([g EXCEPT !.skipped = @ \cup {g.i}], ExistingPageContent(g))
         ELSE [g EXCEPT !.pc = "getPage", !.fetched = @ \cup {g.i},
                        !.startedAfter = @ \cup {<<g.i, Len(g.yields)>>}]

ScanLoopRequests(r, g) ==
    IF g.i <= g.numPages /\ ~HasSufficientText(ExistingPageContent(g))
    THEN {ScanRequest(r, "getPage", g.i)} ELSE {}

\* the first next(): the generator runs to `await getDocument(url).promise`
ScanStart(r) ==
    /\ scan[r].pc = "start"
    /\ scan' = [scan EXCEPT ![r].pc = "getDocument"]
    /\ UNCHANGED <<pdfVars, appVars, storeVars, authVars>>

ScanGetDocument(r) ==
    /\ scan[r].pc = "getDocument"
    /\ \E ok \in BOOLEAN :
         IF ok
         THEN LET g == [scan[r] EXCEPT !.numPages = Len(scan[r].pdf), !.i = 1]
              IN /\ scan' = [scan EXCEPT ![r] = ScanLoopHead(g)]
                 /\ inflight' = inflight \cup ScanLoopRequests(r, g)
         ELSE /\ scan' = [scan EXCEPT ![r] = ScanThrow(@, "getDocument")]
              /\ UNCHANGED inflight
    /\ UNCHANGED <<job, appVars, storeVars, authVars>>

ScanGetPage(r) ==
    /\ scan[r].pc = "getPage"
    /\ ScanRequest(r, "getPage", scan[r].i) \in inflight
    /\ \E ok \in BOOLEAN :
         IF ok
         THEN /\ scan' = [scan EXCEPT ![r].pc = "getTextContent",
                                      ![r].extracted = @ \cup {scan[r].i}]
              /\ inflight' = (inflight \ {ScanRequest(r, "getPage", scan[r].i)})
                                \cup {ScanRequest(r, "getTextContent", scan[r].i)}
         ELSE /\ scan' = [scan EXCEPT ![r] = ScanThrow(@, "getPage")]
              /\ inflight' = inflight \ {ScanRequest(r, "getPage", scan[r].i)}
    /\ UNCHANGED <<job, appVars, storeVars, authVars>>

\* `await processPageForText(page)` settles.  With sparse text the code goes
\* on into processPageWithOcr: no 2D context throws at once, else page.render
\* is awaited.
ScanGetTextContent(r) ==
    /\ scan[r].pc = "getTextContent"
    /\ ScanRequest(r, "getTextContent", scan[r].i) \in inflight
    /\ LET i == scan[r].i
           rest == inflight \ {ScanRequest(r, "getTextContent", i)}
       IN \E ok \in BOOLEAN, context \in BOOLEAN :
            IF ~ok
            THEN /\ scan' = [scan EXCEPT ![r] = ScanThrow(@, "getTextContent")]
                 /\ inflight' = rest
            ELSE LET g == [scan[r] EXCEPT !.standardText = scan[r].pdf[i]]
                 IN IF ~NeedsOcr(g.standardText)
                    THEN /\ scan' = [scan EXCEPT ![r] =
                                Yield(g, KnowledgeFileContent(PageName(i), g.standardText))]
                         /\ inflight' = rest
                    ELSE LET h == [g EXCEPT !.ocrInvoked = @ \cup {i}]
                         IN IF context
                            THEN /\ scan' = [scan EXCEPT ![r] = [h EXCEPT !.pc = "render"]]
                                 /\ inflight' = rest \cup {ScanRequest(r, "render", i)}
                            ELSE /\ scan' = [scan EXCEPT ![r] = OcrFailed(h)]
                                 /\ inflight' = rest
    /\ UNCHANGED <<job, appVars, storeVars, authVars>>

\* `await page.render(...).promise` settles; canvas.toDataURL; without image
\* data processPageWithOcr returns '', else ocrImage POSTs to /api/ocr
ScanRender(r) ==
    /\ scan[r].pc = "render"
    /\ ScanRequest(r, "render", scan[r].i) \in inflight
    /\ LET i == scan[r].i
           rest == inflight \ {ScanRequest(r, "render", i)}
       IN \E outcome \in {"failed", "noImage", "image"} :
            CASE outcome = "failed" ->
                   /\ scan' = [scan EXCEPT ![r] = OcrFailed(@)]
                   /\ inflight' = rest
              [] outcome = "noImage" ->
                   /\ scan' = [scan EXCEPT ![r] =
                                 Yield(@, KnowledgeFileContent(PageName(i), EmptyText))]
                   /\ inflight' = rest
              [] outcome = "image" ->
                   /\ scan' = [scan EXCEPT ![r].pc = "ocr",
                                           ![r].ocrRequested = @ \cup {i}]
                   /\ inflight' = rest \cup {ScanRequest(r, "ocr", i)}
    /\ UNCHANGED <<job, appVars, storeVars, authVars>>

\* the fetch of /api/ocr settles
ScanOcr(r) ==
    /\ scan[r].pc = "ocr"
    /\ ScanRequest(r, "ocr", scan[r].i) \in inflight
    /\ \/ \E text \in OcrTexts :
            scan' = [scan EXCEPT ![r] =
                       Yield(@, KnowledgeFileContent(PageName(scan[r].i), text))]
       \/ scan' = [scan EXCEPT ![r] = OcrFailed(@)]
    /\ inflight' = inflight \ {ScanRequest(r, "ocr", scan[r].i)}
    /\ UNCHANGED <<job, appVars, storeVars, authVars>>

\* the body of `for await`: fileToUpdate.content[pageIndex] = content, then
\* next(): the generator resumes after the yield (i++) at the loop head
ScanConsumeSavingProgress(r) ==
    /\ scan[r].pc = "yielded"
    /\ LET y == scan[r].yields[Len(scan[r].yields)]
           k == y.pageIndex + 1
           written == IF k \in DOMAIN scan[r].content
                      THEN [scan[r].content EXCEPT ![k] = y.content]
                      ELSE Append(scan[r].content, y.content)
           g == [scan[r] EXCEPT !.content = written, !.i = @ + 1]
       IN /\ scan' = [scan EXCEPT ![r] = ScanLoopHead(g)]
          /\ inflight' = inflight \cup ScanLoopRequests(r, g)
          /\ files' = [n \in DOMAIN files |->
                          IF files[n].id = scan[r].file.id
                          THEN [files[n] EXCEPT !.content = written] ELSE files[n]]
    /\ UNCHANGED <<job, folders, selectedFolderId, searchTerm, input, isChatLoading,
                   chatRequests, storeVars, authVars>>

ScanConsume(r) ==
    /\ scan[r].pc = "yielded"
    /\ LET y == scan[r].yields[Len(scan[r].yields)]
           k == y.pageIndex + 1
           written == IF k \in DOMAIN scan[r].content
                      THEN [scan[r].content EXCEPT ![k] = y.content]
                      ELSE Append(scan[r].content, y.content)
           g == [scan[r] EXCEPT !.content = written, !.i = @ + 1]
       IN /\ scan' = [scan EXCEPT ![r] = ScanLoopHead(g)]
          /\ inflight' = inflight \cup ScanLoopRequests(r, g)
    /\ UNCHANGED <<job, appVars, storeVars, authVars>>

(***************************************************************************)
(* The specification of one rescan.                                        *)
(***************************************************************************)
InitRescan ==
    /\ \E caller \in {"rescanSinglePdf", "rescanAllPdfs"},
          pdf \in SeqUpTo(ScanTexts("pdf"), MaxPages),
          stored \in StoredContents :
         scan = <<NewScan(caller, pdf, stored)>>
    /\ job = <<>>
    /\ inflight = {}
    /\ InitApp
    /\ InitStore

NextRescan ==
    \/ \E r \in DOMAIN scan : ScanStart(r)
    \/ \E r \in DOMAIN scan : ScanGetDocument(r)
    \/ \E r \in DOMAIN scan : ScanGetPage(r)
    \/ \E r \in DOMAIN scan : ScanGetTextContent(r)
    \/ \E r \in DOMAIN scan : ScanRender(r)
    \/ \E r \in DOMAIN scan : ScanOcr(r)
    \/ \E r \in DOMAIN scan : ScanConsume(r)

SpecRescan == InitRescan /\ [][NextRescan]_vars

\* the yields of rescan r for (1-based) page i
YieldsOf(r, i) == {n \in DOMAIN scan[r].yields : scan[r].yields[n].pageIndex = i - 1}

\* page i of rescan r has been passed by the loop
Passed(r, i) ==
    \/ scan[r].i > i
    \/ scan[r].i = i /\ scan[r].pc = "yielded"

Sufficient(t) == Length(Trim(t)) >= MIN_TEXT_LENGTH_FOR_OCR_PER_PAGE

\* C2: a page whose stored content has a trimmed text length >= 100 is
\* yielded with that stored content, unchanged, and no page fetch, no text
\* extraction and no OCR call is made for it.
C2_SkipKeepsStored ==
    \A r \in DOMAIN scan :
        \A i \in DOMAIN scan[r].stored :
            Sufficient(scan[r].stored[i].text) =>
                /\ i \notin scan[r].fetched \cup scan[r].extracted
                /\ i \notin scan[r].ocrInvoked \cup scan[r].ocrRequested
                /\ \A q \in inflight : q.owner = <<"scan", r>> => q.page # i
                /\ \A n \in YieldsOf(r, i) :
                       scan[r].yields[n].content = scan[r].stored[i]
                /\ Passed(r, i) => YieldsOf(r, i) # {}

\* the second page is kept under its stored name after the first was OCRed
C2_Witness ==
    \E r \in DOMAIN scan :
        /\ scan[r].pc = "done"
        /\ scan[r].numPages = 2
        /\ scan[r].ocrRequested = {1}
        /\ scan[r].skipped = {2}
        /\ scan[r].stored[2].name = <<"Sheet", 2>>
        /\ scan[r].yields[2].content = scan[r].stored[2]

\* C3: OCR is invoked for a page exactly when the page was not skipped and its
\* standard text has a trimmed length < 100; a page that was not skipped and
\* has >= 100 characters is yielded with exactly the standard text, and no OCR
\* request is made for it.
C3_OcrOnlyForSparse ==
    \A r \in DOMAIN scan :
        /\ \A i \in scan[r].ocrInvoked \cup scan[r].ocrRequested :
               /\ i \notin scan[r].skipped
               /\ i \in scan[r].extracted
               /\ ~Sufficient(scan[r].pdf[i])
        /\ \A n \in DOMAIN scan[r].yields :
               LET i == scan[r].yields[n].pageIndex + 1
               IN /\ i \in scan[r].ocrInvoked
                       <=> (i \notin scan[r].skipped /\ ~Sufficient(scan[r].pdf[i]))
                  /\ (i \notin scan[r].skipped /\ Sufficient(scan[r].pdf[i])) =>
                       /\ scan[r].yields[n].content =
                              KnowledgeFileContent(PageName(i), scan[r].pdf[i])
                       /\ i \notin scan[r].ocrRequested

\* a page of exactly 100 characters is yielded as extracted, the sparse page
\* after it is OCRed
C3_Witness ==
    \E r \in DOMAIN scan :
        /\ scan[r].pc = "done"
        /\ scan[r].numPages = 2
        /\ scan[r].skipped = {}
        /\ Length(scan[r].pdf[1]) = MIN_TEXT_LENGTH_FOR_OCR_PER_PAGE
        /\ scan[r].ocrInvoked = {2}
        /\ scan[r].yields[2].content.text \in OcrTexts \ {EmptyText}

\* C4: when the OCR of a page fails (processPageWithOcr throws), the page is
\* yielded with the standard text, the generator does not throw because of
\* it, and the pages after it are processed: a generator that ends has
\* yielded every page.
C4_OcrFailureKeepsText ==
    \A r \in DOMAIN scan :
        /\ \A i \in scan[r].ocrFailed :
               /\ YieldsOf(r, i) # {}
               /\ \A n \in YieldsOf(r, i) :
                      scan[r].yields[n].content =
                          KnowledgeFileContent(PageName(i), scan[r].pdf[i])
        /\ scan[r].pc = "thrown" =>
               scan[r].thrownBy \in {"getDocument", "getPage", "getTextContent"}
        /\ scan[r].pc = "done" => Len(scan[r].yields) = Len(scan[r].pdf)

\* the OCR request of page 1 fails, its 99 characters are kept, and page 2 is
\* OCRed afterwards
C4_Witness ==
    \E r \in DOMAIN scan :
        /\ scan[r].pc = "done"
        /\ scan[r].numPages = 2
        /\ scan[r].ocrFailed = {1}
        /\ 1 \in scan[r].ocrRequested
        /\ Truthy(scan[r].yields[1].content.text)
        /\ scan[r].yields[1].content.text = scan[r].pdf[1]
        /\ scan[r].ocrRequested = {1, 2}
        /\ scan[r].yields[2].content.text \in OcrTexts

\* C5: the generator yields the pages in the order 0, 1, ..., one result per
\* page, and when it ends it has yielded every page of the PDF; a result is
\* named 'Page i+1' unless it is a kept stored entry; the work on a page starts
\* only once every page before it has been yielded.
C5_OneYieldPerPageInOrder ==
    \A r \in DOMAIN scan :
        /\ \A n \in DOMAIN scan[r].yields :
               /\ scan[r].yields[n].pageIndex = n - 1
               /\ n \in 1..Len(scan[r].pdf)
               /\ IF n \in scan[r].skipped
                  THEN scan[r].yields[n].content = scan[r].stored[n]
                  ELSE scan[r].yields[n].content.name = PageName(n)
        /\ scan[r].pc = "done" => Len(scan[r].yields) = Len(scan[r].pdf)
        /\ \A w \in scan[r].startedAfter : w[2] = w[1] - 1
        /\ \A q \in inflight :
               q.owner = <<"scan", r>> => q.page = Len(scan[r].yields) + 1

\* both pages yielded: the first kept under its stored name, the second fresh
C5_Witness ==
    \E r \in DOMAIN scan :
        /\ scan[r].pc = "done"
        /\ Len(scan[r].yields) = 2
        /\ scan[r].skipped = {1}
        /\ scan[r].yields[1].content.name = <<"Sheet", 1>>
        /\ scan[r].yields[2].content.name = PageName(2)
        /\ <<2, 1>> \in scan[r].startedAfter

(***************************************************************************)
(* services/firebaseService.ts: ensureAuth and withFallback.  An op is one *)
(* call of withFallback(firebaseTask, localTask).                          *)
(***************************************************************************)
MaxOps == 2

NoError == [code |-> "none", message |-> <<>>]

\* what a task may throw: an error's code and its message, the message as the
\* sequence of its parts
CloudErrors ==
    {[code |-> "permission-denied",
      message |-> <<"Missing or insufficient permissions", ".">>],
     [code |-> "unavailable",
      message |-> <<"The service is currently unavailable", ".">>],
     [code |-> "undefined",
      message |-> <<"FirebaseError: ", "Missing or insufficient permissions", ".">>],
     [code |-> "not-found", message |-> <<"No document to update">>],
     [code |-> "undefined", message |-> <<"No DB">>],
     [code |-> "undefined", message |-> <<"undefined">>]}

LocalError == [code |-> "undefined", message |-> <<"IDBRequest error">>]

\* String.prototype.includes, on the parts of a message
Includes(message, part) == \E k \in DOMAIN message : message[k] = part

\* firebaseService.ts:185
IsPermissionErrorCodeOnly(error) ==
    error.code = "permission-denied"

IsPermissionError(error) ==
    \/ error.code = "permission-denied"
    \/ error.code = "unavailable"
    \/ (error.message # <<"undefined">>
        /\ Includes(error.message, "Missing or insufficient permissions"))

\* firebaseService.ts:177
TaskAfterAuthCloudFirst(local) == "firebaseTask"

TaskAfterAuth(local) == IF local THEN "localTask" ELSE "firebaseTask"

\* the synchronous part of ensureAuth: where the call stands at its first await
EnsureAuthEntry ==
    IF authAttempted \/ isUsingLocalMode THEN "ensured"
    ELSE IF ~currentUser THEN "signInAnonymously" ELSE "ensured"

\* what withFallback returned: the store it comes from, and for
\* uploadAndSaveFile the full metadata
NoReturn == [from |-> "none", file |-> NoFile]

NewOp(task, arg, caller) ==
    [task |-> task, arg |-> arg, caller |-> caller, pc |-> EnsureAuthEntry,
     startedLocal |-> isUsingLocalMode, ranCloud |-> FALSE, ranLocal |-> FALSE,
     cloudError |-> NoError, error |-> NoError, result |-> NoReturn,
     step |-> 0, seenFolders |-> {}, seenFiles |-> {}, todo |-> <<>>]

\* ensureAuth sets authAttempted at once when a user is already signed in
AuthAttemptedAfterEntry ==
    authAttempted \/ (~isUsingLocalMode /\ currentUser)

\* findChildren: the folder and its descendants, by the parentId of `all`
RECURSIVE GrowSubtree(_, _)
GrowSubtree(ids, all) ==
    LET more == ids \cup {f.id : f \in {g \in all : g.parentId \in ids}}
    IN IF more = ids THEN ids ELSE GrowSubtree(more, all)

Subtree(folderId, all) == GrowSubtree({folderId}, all)

\* findChildren never returns when it meets a folder that is its own
\* descendant: the call stack overflows
Recurses(folderId, all) ==
    \E id \in Subtree(folderId, all) :
        id \in GrowSubtree({f.id : f \in {g \in all : g.parentId = id}}, all)

NotFound == [code |-> "not-found", message |-> <<"No document to update">>]

RangeError == [code |-> "undefined", message |-> <<"Maximum call stack size exceeded">>]

\* deleteFolderAndContents reads the folders and then the files before it writes
Reads(o) == IF o.task = "deleteFolderAndContents" THEN 2 ELSE 0

\* the folders and the files deleteFolderAndContents found to delete
FoldersToDelete(o) == Subtree(o.arg.id, o.seenFolders)

FilesToDeleteOfFolderOnly(o) == {f.id : f \in {g \in o.seenFiles : g.folderId = o.arg.id}}

FilesToDelete(o) == {f.id : f \in {g \in o.seenFiles : g.folderId \in FoldersToDelete(o)}}

\* what the cloud task throws by itself when it runs on: updateDoc on a
\* document that does not exist, findChildren on a cycle
CloudTaskThrows(o) ==
    IF o.task = "updateFileMetadata" /\ o.arg.id \notin {f.id : f \in cloudFiles}
    THEN {NotFound}
    ELSE IF o.task = "deleteFolderAndContents" /\ Recurses(o.arg.id, o.seenFolders)
    THEN {RangeError}
    ELSE {}

LocalTaskThrows(o) ==
    IF o.task = "deleteFolderAndContents" /\ Recurses(o.arg.id, o.seenFolders)
    THEN {RangeError}
    ELSE {}

\* the effect of a task that succeeds, on the store it uses
CloudFilesAfter(o) ==
    IF o.task = "uploadAndSaveFile"
    THEN {f \in cloudFiles : f.id # o.arg.id}
         \cup {[o.arg EXCEPT !.url = "downloadURL",
                             !.storagePath = <<"files", o.arg.id, o.arg.name>>]}
    ELSE IF o.task = "deleteFile"
    THEN {f \in cloudFiles : f.id # o.arg.id}
    ELSE IF o.task = "updateFileMetadata"
    THEN {f \in cloudFiles : f.id # o.arg.id} \cup {o.arg}
    ELSE IF o.task = "deleteFolderAndContents"
    THEN {f \in cloudFiles : f.id \notin FilesToDelete(o)}
    ELSE cloudFiles

LocalFilesAfter(o) ==
    IF o.task = "uploadAndSaveFile"
    THEN {f \in localFiles : f.id # o.arg.id}
         \cup {[o.arg EXCEPT !.url = "blob:", !.storagePath = <<"local">>]}
    ELSE IF o.task = "deleteFile"
    THEN {f \in localFiles : f.id # o.arg.id}
    ELSE IF o.task = "updateFileMetadata"
    THEN {f \in localFiles : f.id # o.arg.id} \cup {o.arg}
    ELSE IF o.task = "deleteFolderAndContents"
    THEN {f \in localFiles : <<"files", f.id>> \notin {o.todo[k] : k \in DOMAIN o.todo}}
    ELSE localFiles

CloudFoldersAfter(o) ==
    IF o.task = "saveFolder"
    THEN {f \in cloudFolders : f.id # o.arg.id} \cup {o.arg}
    ELSE IF o.task = "deleteFolderAndContents"
    THEN {f \in cloudFolders : f.id \notin FoldersToDelete(o)}
    ELSE cloudFolders

LocalFoldersAfter(o) ==
    IF o.task = "saveFolder"
    THEN {f \in localFolders : f.id # o.arg.id} \cup {o.arg}
    ELSE IF o.task = "deleteFolderAndContents"
    THEN {f \in localFolders : <<"folders", f.id>> \notin {o.todo[k] : k \in DOMAIN o.todo}}
    ELSE localFolders

\* a set as a sequence, in some order
RECURSIVE SeqOf(_)
SeqOf(S) == IF S = {} THEN <<>> ELSE LET x == CHOOSE x \in S : TRUE
                                    IN <<x>> \o SeqOf(S \ {x})

\* the idbDelete calls of deleteFolderAndContents: the files, then the folders
DeleteQueue(o) ==
    SeqOf({<<"files", id>> : id \in FilesToDelete(o)})
    \o <<<<"folders", o.arg.id>>>>
    \o SeqOf({<<"folders", id>> : id \in FoldersToDelete(o) \ {o.arg.id}})

\* a call of one of the exported functions that wrap withFallback
StartOp(task) ==
    /\ Len(op) < MaxOps
    /\ op' = Append(op, NewOp(task, NoFile, 0))
    /\ authAttempted' = AuthAttemptedAfterEntry
    /\ UNCHANGED <<pdfVars, scan, appVars, storeVars, isUsingLocalMode, currentUser>>

\* `await signInAnonymously(auth)` settles
SignInSettles(o) ==
    /\ op[o].pc = "signInAnonymously"
    /\ \E ok \in BOOLEAN :
         /\ currentUser' = (currentUser \/ ok)
         /\ isUsingLocalMode' = (isUsingLocalMode \/ ~ok)
    /\ authAttempted' = TRUE
    /\ op' = [op EXCEPT ![o].pc = "ensured"]
    /\ UNCHANGED <<pdfVars, scan, appVars, storeVars>>

\* withFallback after `await ensureAuth()`: the local task or the cloud task
WithFallback(o) ==
    /\ op[o].pc = "ensured"
    /\ op' = [op EXCEPT ![o].pc = TaskAfterAuth(isUsingLocalMode),
                        ![o].ranLocal = (TaskAfterAuth(isUsingLocalMode) = "localTask"),
                        ![o].ranCloud = (TaskAfterAuth(isUsingLocalMode) = "firebaseTask")]
    /\ UNCHANGED <<pdfVars, scan, appVars, storeVars, isUsingLocalMode,
                   authAttempted, currentUser>>

\* processAndUploadFile continues when its uploadAndSaveFile call settles:
\* the file is returned, or the catch block alerts and returns null
ResumeCaller(o) ==
    IF o.caller = 0 \/ o.pc \notin {"returned", "threw"} THEN job
    ELSE [job EXCEPT ![o.caller] =
            IF o.pc = "returned"
            THEN [@ EXCEPT !.pc = "uploaded", !.saved = o.result.file]
            ELSE [@ EXCEPT !.pc = "failed", !.error = "uploadAndSaveFile failed"]]

\* `await firebaseTask()` settles: the value is returned, or the catch block
\* falls back to the local task or rethrows
FirebaseTaskSettlesWith(o, errors) ==
    /\ op[o].pc = "firebaseTask"
    /\ \/ LET saved == CloudFilesAfter(op[o])
              done == [op[o] EXCEPT
                         !.pc = "returned",
                         !.seenFiles = IF op[o].task = "getFilesMetadata"
                                       THEN cloudFiles ELSE @,
                         !.result = [from |-> "cloud",
                                     file |-> IF op[o].task = "uploadAndSaveFile"
                                              THEN CHOOSE f \in saved : f.id = op[o].arg.id
                                              ELSE NoFile]]
          IN /\ op[o].step = Reads(op[o])
             /\ CloudTaskThrows(op[o]) = {}
             /\ cloudFiles' = saved
             /\ cloudFolders' = CloudFoldersAfter(op[o])
             /\ op' = [op EXCEPT ![o] = done]
             /\ job' = ResumeCaller(done)
             /\ UNCHANGED isUsingLocalMode
       \/ \E error \in errors \cup CloudTaskThrows(op[o]) :
            LET caught == IF IsPermissionError(error)
                          THEN [op[o] EXCEPT !.pc = "localTask", !.ranLocal = TRUE,
                                             !.cloudError = error, !.step = 0,
                                             !.seenFolders = {}, !.seenFiles = {}]
                          ELSE [op[o] EXCEPT !.pc = "threw", !.error = error,
                                             !.cloudError = error]
            IN /\ isUsingLocalMode' = (isUsingLocalMode \/ IsPermissionError(error))
               /\ op' = [op EXCEPT ![o] = caught]
               /\ job' = ResumeCaller(caught)
               /\ UNCHANGED <<cloudFiles, cloudFolders>>
    /\ UNCHANGED <<inflight, scan, appVars, localFiles, localFolders, authAttempted,
                   currentUser>>

FirebaseTaskSettles(o) == FirebaseTaskSettlesWith(o, CloudErrors)

\* the promise of localTask() settles
LocalTaskSettles(o) ==
    /\ op[o].pc = "localTask"
    /\ \/ LET saved == LocalFilesAfter(op[o])
              done == [op[o] EXCEPT
                         !.pc = "returned",
                         !.seenFiles = IF op[o].task = "getFilesMetadata"
                                       THEN localFiles ELSE @,
                         !.result = [from |-> "local",
                                     file |-> IF op[o].task = "uploadAndSaveFile"
                                              THEN CHOOSE f \in saved : f.id = op[o].arg.id
                                              ELSE NoFile]]
          IN /\ op[o].step = Reads(op[o])
             /\ Len(op[o].todo) <= 1
             /\ LocalTaskThrows(op[o]) = {}
             /\ localFiles' = saved
             /\ localFolders' = LocalFoldersAfter(op[o])
             /\ op' = [op EXCEPT ![o] = done]
             /\ job' = ResumeCaller(done)
       \/ \E error \in {LocalError} \cup LocalTaskThrows(op[o]) :
            LET failed == [op[o] EXCEPT !.pc = "threw", !.error = error]
            IN /\ op' = [op EXCEPT ![o] = failed]
               /\ job' = ResumeCaller(failed)
               /\ UNCHANGED <<localFiles, localFolders>>
    /\ UNCHANGED <<inflight, scan, appVars, cloudFiles, cloudFolders, isUsingLocalMode,
                   authAttempted, currentUser>>

\* deleteFolderAndContents, cloud task: `await getDocs(collection(db, ...))`
\* settles, for the folders and then for the files
FirebaseTaskReads(o) ==
    /\ op[o].pc = "firebaseTask"
    /\ op[o].step < Reads(op[o])
    /\ op' = [op EXCEPT ![o] =
                 IF @.step = 0
                 THEN [@ EXCEPT !.step = 1, !.seenFolders = cloudFolders]
                 ELSE [@ EXCEPT !.step = 2, !.seenFiles = cloudFiles]]
    /\ UNCHANGED <<pdfVars, scan, appVars, storeVars, isUsingLocalMode, authAttempted,
                   currentUser>>

\* deleteFolderAndContents, local task: `await idbGetAll(...)` settles, for
\* the folders and then for the files
LocalTaskReads(o) ==
    /\ op[o].pc = "localTask"
    /\ op[o].step < Reads(op[o])
    /\ op' = [op EXCEPT ![o] =
                 IF @.step = 0
                 THEN [@ EXCEPT !.step = 1, !.seenFolders = localFolders]
                 ELSE LET seen == [@ EXCEPT !.step = 2, !.seenFiles = localFiles]
                      IN IF Recurses(seen.arg.id, seen.seenFolders) THEN seen
                         ELSE [seen EXCEPT !.todo = DeleteQueue(seen)]]
    /\ UNCHANGED <<pdfVars, scan, appVars, storeVars, isUsingLocalMode, authAttempted,
                   currentUser>>

\* deleteFolderAndContents, local task: an `await idbDelete(...)` before the
\* last one settles
LocalTaskDeletes(o) ==
    /\ op[o].pc = "localTask"
    /\ op[o].step = Reads(op[o])
    /\ Len(op[o].todo) > 1
    /\ LET first == [op[o] EXCEPT !.todo = <<Head(@)>>]
       IN /\ localFiles' = LocalFilesAfter(first)
          /\ localFolders' = LocalFoldersAfter(first)
    /\ op' = [op EXCEPT ![o].todo = Tail(@)]
    /\ UNCHANGED <<pdfVars, scan, appVars, cloudFiles, cloudFolders, isUsingLocalMode,
                   authAttempted, currentUser>>

(***************************************************************************)
(* The specification of a session's persistence calls: the module          *)
(* initialisation (lines 62-81) leaves local mode on or off.               *)
(***************************************************************************)
ReadTasks == {"getFilesMetadata", "getAllUsers"}

InitFallback ==
    /\ isUsingLocalMode \in BOOLEAN
    /\ currentUser \in BOOLEAN
    /\ isUsingLocalMode => ~currentUser
    /\ authAttempted = FALSE
    /\ op = <<>>
    /\ cloudFiles = {}
    /\ localFiles = {}
    /\ cloudFolders = {}
    /\ localFolders = {}
    /\ job = <<>>
    /\ inflight = {}
    /\ scan = <<>>
    /\ InitApp

NextFallback ==
    \/ \E task \in ReadTasks : StartOp(task)
    \/ \E o \in DOMAIN op : SignInSettles(o)
    \/ \E o \in DOMAIN op : WithFallback(o)
    \/ \E o \in DOMAIN op : FirebaseTaskSettles(o)
    \/ \E o \in DOMAIN op : LocalTaskSettles(o)

SpecFallback == InitFallback /\ [][NextFallback]_vars

\* C7: local mode is one-way: once isUsingLocalMode is true it stays true, and
\* a withFallback call started in local mode never runs its cloud task and,
\* once it has settled, has run its local task.
C7_LocalModeOneWay ==
    /\ [][isUsingLocalMode => isUsingLocalMode']_vars
    /\ [](\A o \in DOMAIN op :
             op[o].startedLocal =>
                 /\ ~op[o].ranCloud
                 /\ op[o].pc \in {"ensured", "localTask", "returned", "threw"}
                 /\ op[o].pc \in {"returned", "threw"} => op[o].ranLocal
                 /\ op[o].pc = "returned" => op[o].result.from = "local")

\* a call started after a permission error had switched the session to local
\* mode has returned from its local task
C7_Witness ==
    \E a, b \in DOMAIN op :
        /\ ~op[a].startedLocal
        /\ IsPermissionError(op[a].cloudError)
        /\ op[b].startedLocal
        /\ op[b].pc = "returned"
        /\ op[b].ranLocal

\* the claim's errors that switch to local mode
SwitchesToLocal(error) ==
    \/ error.code \in {"permission-denied", "unavailable"}
    \/ \E k \in DOMAIN error.message :
           error.message[k] = "Missing or insufficient permissions"

\* C8: a cloud task failing with code 'permission-denied' or 'unavailable' or
\* with a message containing 'Missing or insufficient permissions' switches
\* the session to local mode, runs the local task and returns what it returns;
\* any other error is rethrown as it is, the local task is not run and the
\* step leaves the mode as it was.
C8_FallbackOnPermissionError ==
    /\ [](\A o \in DOMAIN op :
             op[o].cloudError # NoError =>
                 IF SwitchesToLocal(op[o].cloudError)
                 THEN /\ isUsingLocalMode
                      /\ op[o].ranLocal
                      /\ op[o].pc \in {"localTask", "returned", "threw"}
                      /\ op[o].pc = "returned" => op[o].result.from = "local"
                      /\ op[o].pc = "threw" => op[o].error = LocalError
                 ELSE /\ op[o].pc = "threw"
                      /\ op[o].error = op[o].cloudError
                      /\ ~op[o].ranLocal)
    /\ [][\A o \in DOMAIN op :
             (op[o].pc = "firebaseTask" /\ op'[o].pc = "threw")
                 => isUsingLocalMode' = isUsingLocalMode]_vars

\* one call fell back on 'unavailable' and returned the local result, another
\* rethrew 'not-found' while the session was still in cloud mode
C8_Witness ==
    \E a, b \in DOMAIN op :
        /\ op[a].cloudError.code = "not-found"
        /\ op[a].pc = "threw"
        /\ op[b].cloudError.code = "unavailable"
        /\ op[b].pc = "returned"
        /\ op[b].result.from = "local"
        /\ isUsingLocalMode

\* C19: anonymous sign-in is attempted at most once in a session, also when
\* several operations start before the first attempt has finished: at no time
\* have two calls of withFallback each called signInAnonymously and be
\* awaiting it
C19_SignInAttemptedOnce ==
    Cardinality({o \in DOMAIN op : op[o].pc = "signInAnonymously"}) <= 1

(***************************************************************************)
(* services/fileUtils.ts: extractTextFromFile, and App.tsx:                *)
(* processAndSaveFiles.  A file name and a MIME type are the sequences of  *)
(* their parts, '.' and '/' being parts of their own.                      *)
(***************************************************************************)
MaxUpload == 2

\* String.prototype.toLowerCase, part by part
LowerPart(p) ==
    CASE p = "PDF" -> "pdf"
      [] p = "Pdf" -> "pdf"
      [] p = "DOCX" -> "docx"
      [] p = "TXT" -> "txt"
      [] p = "REPORT" -> "report"
      [] OTHER -> p

ToLowerCaseOmitted(name) == name

ToLowerCase(name) == [k \in DOMAIN name |-> LowerPart(name[k])]

\* String.prototype.endsWith / startsWith
EndsWith(str, suffix) ==
    /\ Len(str) >= Len(suffix)
    /\ SubSeq(str, Len(str) - Len(suffix) + 1, Len(str)) = suffix

StartsWith(str, prefix) ==
    /\ Len(str) >= Len(prefix)
    /\ SubSeq(str, 1, Len(prefix)) = prefix

UploadFile(name, type, pdf, text) ==
    [name |-> name, type |-> type, pdf |-> pdf, text |-> text]

SparsePage == Text("pdf", 1, MIN_TEXT_LENGTH_FOR_OCR_PER_PAGE - 1, 0)
DensePage == Text("pdf", 0, MIN_TEXT_LENGTH_FOR_OCR_PER_PAGE, 0)

\* the files that go with another in one upload: a PDF and an image
CompanionFiles ==
    {UploadFile(<<"report", ".", "pdf">>, <<"application", "/", "pdf">>,
                <<SparsePage, DensePage>>, EmptyText),
     UploadFile(<<"scan", ".", "png">>, <<"image", "/", "png">>, <<>>, EmptyText)}

\* the files a user may pick or drop
UploadFiles ==
    CompanionFiles \cup
    {UploadFile(<<"REPORT", ".", "PDF">>, <<"application", "/", "pdf">>,
                <<DensePage>>, EmptyText),
     UploadFile(<<"photo", ".", "Pdf">>, <<"image", "/", "jpeg">>, <<>>, EmptyText),
     UploadFile(<<"notes", ".", "DOCX">>, <<"application", "/", "msword">>, <<>>,
                Text("docx", 0, MIN_TEXT_LENGTH_FOR_OCR_PER_PAGE + 1, 1)),
     UploadFile(<<"todo", ".", "txt">>, <<"text", "/", "plain">>, <<>>,
                Text("txt", 1, MIN_TEXT_LENGTH_FOR_OCR_PER_PAGE - 1, 1)),
     UploadFile(<<"empty", ".", "TXT">>, <<>>, <<>>, EmptyText),
     UploadFile(<<"tool", ".", "exe">>, <<"application", "/", "octet-stream">>,
                <<>>, EmptyText),
     UploadFile(<<"pdf">>, <<>>, <<>>, EmptyText),
     UploadFile(<<"image", ".", "bin">>, <<"imagex", "/", "raw">>, <<>>, EmptyText)}

\* the uploads of one call: a first file and the files that go with it
Batches ==
    {<<f>> \o rest : f \in UploadFiles, rest \in SeqUpTo(CompanionFiles, MaxUpload - 1)}

\* extractTextFromFile up to its first await: the branch taken
ExtractEntry(file) ==
    LET fileName == ToLowerCase(file.name)
    IN CASE EndsWith(fileName, <<".", "pdf">>) -> "readAsArrayBuffer"
         [] EndsWith(fileName, <<".", "docx">>) -> "arrayBuffer"
         [] EndsWith(fileName, <<".", "txt">>) -> "text"
         [] StartsWith(file.type, <<"image", "/">>) -> "fileToBase64"
         [] OTHER -> "failed"

\* processAndUploadFile: fileType
FileType(file) ==
    CASE EndsWith(ToLowerCase(file.name), <<".", "pdf">>) -> "pdf"
      [] StartsWith(file.type, <<"image", "/">>) -> "image"
      [] EndsWith(ToLowerCase(file.name), <<".", "docx">>) -> "docx"
      [] OTHER -> "text"

\* content.reduce((acc, val) => acc + val.text.length, 0)
RECURSIVE ReduceLength(_, _)
ReduceLength(acc, content) ==
    IF content = <<>> THEN acc
    ELSE ReduceLength(acc + Length(Head(content).text), Tail(content))

\* processAndUploadFile: metadata, for job j
Metadata(j, x) ==
    [id |-> j, name |-> x.file.name, type |-> FileType(x.file),
     folderId |-> x.folderId, content |-> x.result.content,
     contentLength |-> x.result.contentLength, isLocked |-> FALSE,
     ocrStatus |-> x.result.ocrStatus,
     lastOcrScan |-> IF x.result.ocrStatus = "ocr_applied" THEN "now" ELSE "none",
     url |-> "none", storagePath |-> <<>>]

\* processAndUploadFile when extractTextFromFile has returned `result`: the
\* metadata, and uploadAndSaveFile up to the first await of withFallback
Extracted(j, result) ==
    LET x == [job[j] EXCEPT !.pc = "uploadAndSaveFile", !.result = result]
    IN /\ job' = [job EXCEPT ![j] = x]
       /\ op' = Append(op, NewOp("uploadAndSaveFile", Metadata(j, x), j))
       /\ authAttempted' = AuthAttemptedAfterEntry

\* processAndUploadFile's catch block: alert, return null
Failed(j, error) ==
    /\ job' = [job EXCEPT ![j].pc = "failed", ![j].error = error]
    /\ UNCHANGED <<op, authAttempted>>

\* what the cloud task of uploadAndSaveFile may throw: setDoc refused by the
\* Firestore rules, uploadBytes refused by the Storage rules
UploadErrors ==
    {[code |-> "permission-denied",
      message |-> <<"Missing or insufficient permissions", ".">>],
     [code |-> "storage/unauthorized",
      message |-> <<"User does not have permission to access the object">>]}

\* the cloud task of uploadAndSaveFile settles
UploadSettles(o) == FirebaseTaskSettlesWith(o, UploadErrors)

\* handleFileUpload / handleDrop: processAndSaveFiles maps processAndUploadFile
\* over the files; each call runs to its first await
ProcessAndSaveFilesOf(batches) ==
    /\ job = <<>>
    /\ \E batch \in batches :
         job' = [j \in DOMAIN batch |->
                   LET x == NewJob("file", "processAndUploadFile", batch[j],
                                   selectedFolderId, ExtractEntry(batch[j]))
                   IN IF x.pc = "failed"
                      THEN [x EXCEPT !.error = "unsupported file format"]
                      ELSE x]
    /\ UNCHANGED <<inflight, scan, appVars, storeVars, authVars>>

ProcessAndSaveFiles == ProcessAndSaveFilesOf(Batches)

\* `await extractTextFromPdf(file)` settles
PdfSettled(j) ==
    /\ job[j].caller = "processAndUploadFile"
    /\ job[j].pc \in {"resolved", "rejected"}
    /\ IF job[j].pc = "resolved"
       THEN Extracted(j, [content |-> job[j].pdfResult.content,
                          ocrStatus |-> job[j].pdfResult.ocrStatus,
                          contentLength |-> ReduceLength(0, job[j].pdfResult.content)])
       ELSE Failed(j, job[j].error)
    /\ UNCHANGED <<inflight, scan, appVars, storeVars, isUsingLocalMode, currentUser>>

\* wordUtils.ts: `await file.arrayBuffer()` settles
DocxArrayBuffer(j) ==
    /\ job[j].pc = "arrayBuffer"
    /\ \E ok \in BOOLEAN :
         job' = [job EXCEPT ![j] =
                   IF ok THEN [@ EXCEPT !.pc = "extractRawText"]
                   ELSE [@ EXCEPT !.pc = "failed",
                                  !.error = "Word file could not be parsed"]]
    /\ UNCHANGED <<inflight, scan, appVars, storeVars, authVars>>

\* wordUtils.ts: `await mammoth.extractRawText(...)` settles
DocxExtractRawText(j) ==
    /\ job[j].pc = "extractRawText"
    /\ \E ok \in BOOLEAN :
         IF ok
         THEN Extracted(j, [content |-> <<KnowledgeFileContent(<<"Document Content">>,
                                                                job[j].file.text)>>,
                            ocrStatus |-> "text_only",
                            contentLength |-> Length(job[j].file.text)])
         ELSE Failed(j, "Word file could not be parsed")
    /\ UNCHANGED <<inflight, scan, appVars, storeVars, isUsingLocalMode, currentUser>>

\* `await file.text()` settles
FileText(j) ==
    /\ job[j].pc = "text"
    /\ \E ok \in BOOLEAN :
         IF ok
         THEN Extracted(j, [content |-> <<KnowledgeFileContent(<<"Text Content">>,
                                                                job[j].file.text)>>,
                            ocrStatus |-> "text_only",
                            contentLength |-> Length(job[j].file.text)])
         ELSE Failed(j, "file could not be read")
    /\ UNCHANGED <<inflight, scan, appVars, storeVars, isUsingLocalMode, currentUser>>

\* `await fileToBase64(file)` settles; ocrImage POSTs to /api/ocr
FileToBase64(j) ==
    /\ job[j].pc = "fileToBase64"
    /\ \E ok \in BOOLEAN :
         IF ok
         THEN /\ job' = [job EXCEPT ![j].pc = "ocrImage"]
              /\ inflight' = inflight \cup {PageRequest(j, "ocr", 0)}
         ELSE /\ job' = [job EXCEPT ![j].pc = "failed",
                                    ![j].error = "Failed to convert file to base64"]
              /\ UNCHANGED inflight
    /\ UNCHANGED <<scan, appVars, storeVars, authVars>>

\* `await ocrImage(base64, file.type)` settles
OcrImage(j) ==
    /\ job[j].pc = "ocrImage"
    /\ PageRequest(j, "ocr", 0) \in inflight
    /\ \/ \E ocrText \in OcrTexts :
            Extracted(j, [content |-> <<KnowledgeFileContent(<<"Image Content">>, ocrText)>>,
                          ocrStatus |-> "ocr_applied",
                          contentLength |-> Length(ocrText)])
       \/ Failed(j, "OCR failed")
    /\ inflight' = inflight \ {PageRequest(j, "ocr", 0)}
    /\ UNCHANGED <<scan, appVars, storeVars, isUsingLocalMode, currentUser>>

\* `await Promise.all(filePromises)` settles: setFiles(prev => [...prev, ...newFiles])
PromiseAll ==
    /\ job # <<>>
    /\ \A j \in DOMAIN job : job[j].pc \in {"uploaded", "failed"}
    /\ files' = files \o [k \in 1..Cardinality({j \in DOMAIN job : job[j].pc = "uploaded"}) |->
                            job[CHOOSE j \in DOMAIN job :
                                  /\ job[j].pc = "uploaded"
                                  /\ Cardinality({i \in 1..j : job[i].pc = "uploaded"}) = k].saved]
    /\ job' = [j \in DOMAIN job |->
                 [job[j] EXCEPT !.pc = IF job[j].pc = "uploaded" THEN "listed" ELSE "null"]]
    /\ UNCHANGED <<inflight, scan, folders, selectedFolderId, searchTerm, input,
                   isChatLoading, chatRequests, storeVars, authVars>>

(***************************************************************************)
(* The specification of an upload in a session whose data has been loaded: *)
(* ensureAuth has run, in cloud mode a user is signed in.                  *)
(***************************************************************************)
InitUpload ==
    /\ isUsingLocalMode \in BOOLEAN
    /\ currentUser = ~isUsingLocalMode
    /\ authAttempted = TRUE
    /\ op = <<>>
    /\ cloudFiles = {}
    /\ localFiles = {}
    /\ cloudFolders = IF isUsingLocalMode THEN {} ELSE {RootFolder}
    /\ localFolders = IF isUsingLocalMode THEN {RootFolder} ELSE {}
    /\ job = <<>>
    /\ inflight = {}
    /\ scan = <<>>
    /\ InitLoaded

NextUpload ==
    \/ ProcessAndSaveFiles
    \/ \E j \in DOMAIN job : ReadAsArrayBuffer(j)
    \/ \E j \in DOMAIN job : GetDocument(j)
    \/ \E j \in DOMAIN job : GetPage(j)
    \/ \E j \in DOMAIN job : GetTextContent(j)
    \/ \E j \in DOMAIN job : PdfSettled(j)
    \/ \E j \in DOMAIN job : DocxArrayBuffer(j)
    \/ \E j \in DOMAIN job : DocxExtractRawText(j)
    \/ \E j \in DOMAIN job : FileText(j)
    \/ \E j \in DOMAIN job : FileToBase64(j)
    \/ \E j \in DOMAIN job : OcrImage(j)
    \/ \E o \in DOMAIN op : WithFallback(o)
    \/ \E o \in DOMAIN op : UploadSettles(o)
    \/ \E o \in DOMAIN op : LocalTaskSettles(o)
    \/ PromiseAll

SpecUpload == InitUpload /\ [][NextUpload]_vars

\* the claim's file kinds: the suffix in any case, then the MIME type
SuffixIn(name, exts) ==
    /\ Len(name) >= 2
    /\ name[Len(name) - 1] = "."
    /\ name[Len(name)] \in exts

KindOf(file) ==
    CASE SuffixIn(file.name, {"pdf", "PDF", "Pdf"}) -> "pdf"
      [] SuffixIn(file.name, {"docx", "DOCX"}) -> "docx"
      [] SuffixIn(file.name, {"txt", "TXT"}) -> "txt"
      [] Len(file.type) >= 2 /\ file.type[1] = "image" /\ file.type[2] = "/" -> "image"
      [] OTHER -> "unsupported"

RECURSIVE SumLengths(_)
SumLengths(content) ==
    IF content = <<>> THEN 0
    ELSE SumLengths(SubSeq(content, 1, Len(content) - 1))
         + Length(content[Len(content)].text)

StoredIds == {f.id : f \in cloudFiles \cup localFiles}

ListedIds == {files[k].id : k \in DOMAIN files}

\* C10: extractTextFromFile accepts PDF, DOCX and text files by their suffix in
\* any case and images by their MIME type, with ocrStatus the PDF's
\* recommendation, 'text_only', 'text_only' and 'ocr_applied', and with
\* contentLength the sum of the text lengths of the content items; any other
\* file is rejected as unsupported, is not stored and is not added to the
\* file list.
C10_ExtractByFileType ==
    \A j \in DOMAIN job :
        job[j].caller = "processAndUploadFile" =>
            LET kind == KindOf(job[j].file)
                res == job[j].result
            IN /\ res # NoExtraction =>
                    /\ kind # "unsupported"
                    /\ res.ocrStatus =
                         CASE kind = "pdf" -> job[j].pdfResult.ocrStatus
                           [] kind \in {"docx", "txt"} -> "text_only"
                           [] kind = "image" -> "ocr_applied"
                    /\ kind = "pdf" => res.ocrStatus \in {"text_only", "ocr_recommended"}
                    /\ res.contentLength = SumLengths(res.content)
               /\ kind # "unsupported" => job[j].error # "unsupported file format"
               /\ kind = "unsupported" =>
                    /\ job[j].pc \in {"failed", "null"}
                    /\ job[j].error = "unsupported file format"
                    /\ res = NoExtraction
                    /\ j \notin StoredIds \cup ListedIds
                    /\ \A o \in DOMAIN op : op[o].caller # j

\* an unsupported file was dropped together with a PDF: only the PDF is
\* stored and listed, with both pages' lengths
C10_Witness ==
    /\ Len(job) = 2
    /\ KindOf(job[1].file) = "unsupported"
    /\ job[1].pc = "null"
    /\ job[2].pc = "listed"
    /\ KindOf(job[2].file) = "pdf"
    /\ Len(files) = 1
    /\ files[1].id = 2
    /\ files[1].ocrStatus = "ocr_recommended"
    /\ files[1].contentLength = 2 * MIN_TEXT_LENGTH_FOR_OCR_PER_PAGE
    /\ StoredIds = {2}

(***************************************************************************)
(* The specification of an upload of PDFs and images while a rescan runs.  *)
(***************************************************************************)
RescanOfSparsePdf ==
    NewScan("rescanSinglePdf",
            <<Text("pdf", 0, MIN_TEXT_LENGTH_FOR_OCR_PER_PAGE - 1, 0),
              Text("pdf", 0, MIN_TEXT_LENGTH_FOR_OCR_PER_PAGE - 1, 0)>>,
            <<>>)

\* one drop of MaxUpload files, PDFs and images in turn
PdfsAndImages ==
    [k \in 1..MaxUpload |->
        IF k % 2 = 1
        THEN UploadFile(<<"report", ".", "pdf">>, <<"application", "/", "pdf">>,
                        <<SparsePage, DensePage>>, EmptyText)
        ELSE UploadFile(<<"scan", ".", "png">>, <<"image", "/", "png">>, <<>>,
                        EmptyText)]

UploadPdfsAndImages == ProcessAndSaveFilesOf({PdfsAndImages})

InitPipeline ==
    /\ isUsingLocalMode = TRUE
    /\ currentUser = FALSE
    /\ authAttempted = TRUE
    /\ op = <<>>
    /\ cloudFiles = {}
    /\ localFiles = {}
    /\ cloudFolders = IF isUsingLocalMode THEN {} ELSE {RootFolder}
    /\ localFolders = IF isUsingLocalMode THEN {RootFolder} ELSE {}
    /\ job = <<>>
    /\ inflight = {}
    /\ scan = <<RescanOfSparsePdf>>
    /\ InitLoaded

NextPipeline ==
    \/ UploadPdfsAndImages
    \/ \E j \in DOMAIN job : ReadAsArrayBuffer(j)
    \/ \E j \in DOMAIN job : GetDocument(j)
    \/ \E j \in DOMAIN job : GetPage(j)
    \/ \E j \in DOMAIN job : GetTextContent(j)
    \/ \E j \in DOMAIN job : PdfSettled(j)
    \/ \E j \in DOMAIN job : FileToBase64(j)
    \/ \E j \in DOMAIN job : OcrImage(j)
    \/ \E o \in DOMAIN op : WithFallback(o)
    \/ \E o \in DOMAIN op : LocalTaskSettles(o)
    \/ PromiseAll
    \/ \E r \in DOMAIN scan : ScanStart(r)
    \/ \E r \in DOMAIN scan : ScanGetDocument(r)
    \/ \E r \in DOMAIN scan : ScanGetPage(r)
    \/ \E r \in DOMAIN scan : ScanGetTextContent(r)
    \/ \E r \in DOMAIN scan : ScanRender(r)
    \/ \E r \in DOMAIN scan : ScanOcr(r)
    \/ \E r \in DOMAIN scan : ScanConsume(r)

SpecPipeline == InitPipeline /\ [][NextPipeline]_vars

\* the requests in flight
PageExtractionOrOcr == {q \in inflight : q.kind \in {"getPage", "getTextContent", "ocr"}}

\* C6 as stated: at any moment at most one page-extraction or OCR request is
\* in flight.
C6_AtMostOneInFlight == Cardinality(PageExtractionOrOcr) <= 1

\* C6, amended: each file's extraction and each rescan has at most one
\* page-extraction or OCR request in flight and works on one page at a time;
\* the files of one upload are extracted concurrently.
C6_OneInFlightPerFile ==
    /\ \A j \in DOMAIN job :
           Cardinality({q \in inflight : q.owner = <<"file", j>>}) <= 1
    /\ \A r \in DOMAIN scan :
           Cardinality({q \in inflight : q.owner = <<"scan", r>>}) <= 1

\* two uploaded files and the rescan each have a request in flight
C6_Witness ==
    /\ Len(job) = 2
    /\ \E q \in inflight : q.owner = <<"file", 1>> /\ q.kind = "getTextContent" /\ q.page = 2
    /\ \E q \in inflight : q.owner = <<"file", 2>> /\ q.kind = "ocr"
    /\ \E q \in inflight : q.owner = <<"scan", 1>> /\ q.kind = "ocr" /\ q.page = 2

(***************************************************************************)
(* App.tsx: getKnowledgeContext and handleSendMessage, ChatWidget:         *)
(* handleSend, services/geminiService.ts: answerFromKnowledgeBase.  A      *)
(* string built from parts is the sequence of its parts.                   *)
(***************************************************************************)
MaxFiles == 2
MaxChat == 2

\* `[Document: ${file.name}, Location: ${contentItem.name}]\n${contentItem.text}`
DocumentBlock(file, contentItem) ==
    <<"[Document: ", file.name, ", Location: ", contentItem.name, "]\n",
      contentItem.text>>

Separator == <<"\n\n---\n\n">>

\* Array.prototype.flatMap over the content items
RECURSIVE FlatMapBlocks(_)
FlatMapBlocks(fs) ==
    IF fs = <<>> THEN <<>>
    ELSE [k \in DOMAIN Head(fs).content |-> DocumentBlock(Head(fs), Head(fs).content[k])]
         \o FlatMapBlocks(Tail(fs))

\* Array.prototype.join
RECURSIVE Join(_, _)
Join(parts, separator) ==
    IF Len(parts) <= 1 THEN parts
    ELSE <<Head(parts), separator>> \o Join(Tail(parts), separator)

HasContent(file) == Len(file.content) > 0

\* the files getKnowledgeContext takes: those with a non-empty content array
KnowledgeFilesOfSelectedFolder ==
    SelectSeq(files, LAMBDA file : HasContent(file) /\ file.folderId = selectedFolderId)

KnowledgeFiles == SelectSeq(files, HasContent)

getKnowledgeContext == Join(FlatMapBlocks(KnowledgeFiles), Separator)

\* answerFromKnowledgeBase: the body of the POST to /api/chat
ChatBody(question, context) == [question |-> question, context |-> context]

\* the input box's onChange
SetInput(text) ==
    /\ ~isChatLoading
    /\ input' = text
    /\ UNCHANGED <<pdfVars, scan, files, folders, selectedFolderId, searchTerm, isChatLoading,
                   chatRequests, storeVars, authVars>>

\* ChatWidget's handleSend and App's handleSendMessage up to the fetch
handleSend ==
    /\ ~isChatLoading
    /\ Len(chatRequests) < MaxChat
    /\ IF Truthy(Trim(input))
       THEN /\ chatRequests' = Append(chatRequests,
                                      ChatBody(Trim(input), getKnowledgeContext))
            /\ input' = EmptyText
            /\ isChatLoading' = TRUE
       ELSE UNCHANGED <<chatRequests, input, isChatLoading>>
    /\ UNCHANGED <<pdfVars, scan, files, folders, selectedFolderId, searchTerm, storeVars,
                   authVars>>

\* the fetch settles: a bot message or an error message, and the finally block
AnswerSettles ==
    /\ isChatLoading
    /\ isChatLoading' = FALSE
    /\ UNCHANGED <<pdfVars, scan, files, folders, selectedFolderId, searchTerm, input,
                   chatRequests, storeVars, authVars>>

handleSearchChange(term) ==
    /\ searchTerm' = term
    /\ UNCHANGED <<pdfVars, scan, files, folders, selectedFolderId, input, isChatLoading,
                   chatRequests, storeVars, authVars>>

handleFolderSelect(id) ==
    /\ selectedFolderId' = id
    /\ searchTerm' = ""
    /\ UNCHANGED <<pdfVars, scan, files, folders, input, isChatLoading, chatRequests,
                   storeVars, authVars>>

\* handleFileDelete, the user confirming: the file leaves the list, and
\* firebase.deleteFile runs to the first await of withFallback
handleFileDelete(k) ==
    /\ ~files[k].isLocked
    /\ files' = SelectSeq(files, LAMBDA f : f.id # files[k].id)
    /\ op' = Append(op, NewOp("deleteFile", files[k], 0))
    /\ authAttempted' = AuthAttemptedAfterEntry
    /\ UNCHANGED <<pdfVars, scan, folders, selectedFolderId, searchTerm, input,
                   isChatLoading,
                   chatRequests, storeVars, isUsingLocalMode, currentUser>>

FolderIds == {"root", "folder-1"}

SearchTerms == {"", "report"}

InputTexts == {Text("question", 1, 0, 1), Text("question", 1, 8, 1)}

StoredFile(id, name, type, folderId, content, isLocked) ==
    [id |-> id, name |-> name, type |-> type, folderId |-> folderId,
     content |-> content, contentLength |-> ReduceLength(0, content),
     isLocked |-> isLocked,
     ocrStatus |-> IF type = "image" THEN "ocr_applied" ELSE "text_only",
     lastOcrScan |-> IF type = "image" THEN "now" ELSE "none",
     url |-> "downloadURL", storagePath |-> <<"files", id, name>>]

\* the files of the knowledge base: two PDFs of one name in two folders whose
\* first pages are alike, an image without content, a locked text file
KnowledgeBase ==
    <<StoredFile(1, <<"report", ".", "pdf">>, "pdf", "root",
                 <<KnowledgeFileContent(PageName(1), DensePage),
                   KnowledgeFileContent(PageName(2), EmptyText)>>, FALSE),
      StoredFile(2, <<"report", ".", "pdf">>, "pdf", "folder-1",
                 <<KnowledgeFileContent(PageName(1), DensePage)>>, FALSE),
      StoredFile(3, <<"scan", ".", "png">>, "image", "folder-1", <<>>, FALSE),
      StoredFile(4, <<"todo", ".", "txt">>, "text", "folder-1",
                 <<KnowledgeFileContent(<<"Text Content">>, SparsePage)>>, TRUE)>>

\* the lists of up to MaxFiles files of the knowledge base, in its order
FileLists ==
    {SelectSeq(KnowledgeBase, LAMBDA f : f.id \in ids) :
        ids \in {x \in SUBSET (1..Len(KnowledgeBase)) : Cardinality(x) <= MaxFiles}}

(***************************************************************************)
(* The specification of a chat in a session whose data has been loaded, in *)
(* local mode.                                                             *)
(***************************************************************************)
InitChat ==
    /\ files \in FileLists
    /\ isUsingLocalMode = TRUE
    /\ currentUser = FALSE
    /\ authAttempted = TRUE
    /\ cloudFiles = IF isUsingLocalMode THEN {} ELSE {files[k] : k \in DOMAIN files}
    /\ localFiles = IF isUsingLocalMode THEN {files[k] : k \in DOMAIN files} ELSE {}
    /\ folders = {RootFolder, Folder("folder-1", "root", FALSE)}
    /\ cloudFolders = IF isUsingLocalMode THEN {} ELSE folders
    /\ localFolders = IF isUsingLocalMode THEN folders ELSE {}
    /\ selectedFolderId = "root"
    /\ searchTerm = ""
    /\ input = EmptyText
    /\ isChatLoading = FALSE
    /\ chatRequests = <<>>
    /\ op = <<>>
    /\ job = <<>>
    /\ inflight = {}
    /\ scan = <<>>

NextChat ==
    \/ \E text \in InputTexts : SetInput(text)
    \/ handleSend
    \/ AnswerSettles
    \/ \E term \in SearchTerms : handleSearchChange(term)
    \/ \E id \in FolderIds : handleFolderSelect(id)
    \/ \E k \in DOMAIN files : handleFileDelete(k)
    \/ \E o \in DOMAIN op : WithFallback(o)
    \/ \E o \in DOMAIN op : LocalTaskSettles(o)

SpecChat == InitChat /\ [][NextChat]_vars

\* the content items of the file list, each by its file's and its own position
ContentItems(fs) ==
    UNION {{<<i, k>> : k \in DOMAIN fs[i].content} : i \in DOMAIN fs}

\* the block the claim gives a content item
BlockOf(fs, item) ==
    <<"[Document: ", fs[item[1]].name, ", Location: ",
      fs[item[1]].content[item[2]].name, "]\n", fs[item[1]].content[item[2]].text>>

BlockPositions(context) == {p \in DOMAIN context : context[p] # Separator}

\* C9: the body POSTed to /api/chat carries the submitted question (trimmed)
\* and a context with exactly one '[Document: name, Location: item]' block for
\* every content item of every file of the file list at that moment, whatever
\* folder is selected and whatever the search term is.
C9_ContextIsWholeKnowledgeBase ==
    [][Len(chatRequests') = Len(chatRequests) + 1 =>
          LET body == chatRequests'[Len(chatRequests')]
              items == ContentItems(files)
          IN /\ body.question = Trim(input)
             /\ Length(body.question) > 0
             /\ Cardinality(BlockPositions(body.context)) = Cardinality(items)
             /\ \A item \in items :
                    Cardinality({p \in BlockPositions(body.context) :
                                    body.context[p] = BlockOf(files, item)})
                    = Cardinality({other \in items :
                                      BlockOf(files, other) = BlockOf(files, item)})]_vars

\* a question was sent while a search term was set and the selected folder
\* held one of two files with content: the context has the blocks of both
C9_Witness ==
    /\ Len(chatRequests) = 1
    /\ isChatLoading
    /\ searchTerm = "report"
    /\ selectedFolderId = "folder-1"
    /\ Len(files) = 2
    /\ files[1].folderId = "root"
    /\ files[2].folderId = "folder-1"
    /\ Cardinality(BlockPositions(chatRequests[1].context)) = 3
    /\ chatRequests[1].question = Text("question", 0, 8, 0)


(***************************************************************************)
(* App.tsx: the handlers of the folder tree and of the files in it.  Each  *)
(* changes the UI state and runs its store call to the first await of      *)
(* withFallback; the store call settles in later steps (best effort: the   *)
(* UI state is not rolled back when the call throws).                      *)
(***************************************************************************)
MaxCreate == 1

\* generateId(): the ids of the folders created in a session, in their order
NewFolderIds == <<"folder-3", "folder-4", "folder-5">>

CreatedFolderIds ==
    {op[o].arg.id : o \in {x \in DOMAIN op : op[x].task = "saveFolder"}}
    \cap {NewFolderIds[n] : n \in DOMAIN NewFolderIds}

generateId == NewFolderIds[Cardinality(CreatedFolderIds) + 1]

IdsOf(all) == {f.id : f \in all}

\* Array.prototype.find on the folder list
Find(all, id) == CHOOSE f \in all : f.id = id

handleCreateFolder(parentId) ==
    LET newFolder == Folder(generateId, IF parentId = "null" THEN "root" ELSE parentId,
                            FALSE)
    IN /\ Cardinality(CreatedFolderIds) < MaxCreate
       /\ folders' = folders \cup {newFolder}
       /\ op' = Append(op, NewOp("saveFolder", newFolder, 0))
       /\ authAttempted' = AuthAttemptedAfterEntry
       /\ UNCHANGED <<pdfVars, scan, files, selectedFolderId, searchTerm, input,
                      isChatLoading, chatRequests, storeVars, isUsingLocalMode,
                      currentUser>>

\* the while loop of isDescendant from the folder `parent` on: "true", "false",
\* or "loops" when the parent chain is a cycle that does not hold parentId
RECURSIVE ParentChain(_, _, _, _)
ParentChain(parent, parentId, currentFolders, visited) ==
    IF parent = "null" THEN "false"
    ELSE IF parent = parentId THEN "true"
    ELSE IF parent \in visited THEN "loops"
    ELSE IF parent \notin IdsOf(currentFolders) THEN "false"
    ELSE ParentChain(Find(currentFolders, parent).parentId, parentId, currentFolders,
                     visited \cup {parent})

isDescendant(childId, parentId, currentFolders) ==
    IF childId \notin IdsOf(currentFolders) THEN "false"
    ELSE ParentChain(Find(currentFolders, childId).parentId, parentId, currentFolders, {})

\* handleFolderMove returns before it changes anything
MoveRejectedWithoutDescendantTest(movedFolderId, targetFolderId, currentFolders) ==
    \/ movedFolderId = targetFolderId
    \/ movedFolderId = "root"
    \/ movedFolderId \notin IdsOf(currentFolders)

MoveRejected(movedFolderId, targetFolderId, currentFolders) ==
    \/ movedFolderId = targetFolderId
    \/ movedFolderId = "root"
    \/ isDescendant(targetFolderId, movedFolderId, currentFolders) = "true"
    \/ movedFolderId \notin IdsOf(currentFolders)

\* the folder list handleFolderMove sets
FoldersAfterMove(movedFolderId, targetFolderId, currentFolders) ==
    IF MoveRejected(movedFolderId, targetFolderId, currentFolders) THEN currentFolders
    ELSE {IF f.id = movedFolderId THEN [f EXCEPT !.parentId = targetFolderId] ELSE f :
            f \in currentFolders}

handleFolderMove(movedFolderId, targetFolderId) ==
    /\ ~MoveRejected(movedFolderId, targetFolderId, folders)
    /\ isDescendant(targetFolderId, movedFolderId, folders) # "loops"
    /\ folders' = FoldersAfterMove(movedFolderId, targetFolderId, folders)
    /\ op' = Append(op, NewOp("saveFolder",
                              [Find(folders, movedFolderId)
                                  EXCEPT !.parentId = targetFolderId], 0))
    /\ authAttempted' = AuthAttemptedAfterEntry
    /\ UNCHANGED <<pdfVars, scan, files, selectedFolderId, searchTerm, input,
                   isChatLoading, chatRequests, storeVars, isUsingLocalMode,
                   currentUser>>

\* handleFolderDelete: the ids of the files in the folders to delete
FilesIn(folderIds, fileList) ==
    {fileList[k].id : k \in {x \in DOMAIN fileList : fileList[x].folderId \in folderIds}}

isLockedInside(folderId) ==
    \/ \E k \in DOMAIN files :
          files[k].id \in FilesIn(Subtree(folderId, folders), files) /\ files[k].isLocked
    \/ \E f \in folders : f.id \in Subtree(folderId, folders) /\ f.isLocked

\* handleFolderDelete returns before it changes anything
DeleteRejected(folderId) ==
    \/ folderId \notin IdsOf(folders)
    \/ Find(folders, folderId).isLocked
    \/ isLockedInside(folderId)

\* handleFolderDelete, the user confirming: the folder, its descendants and
\* their files leave the lists, and firebase.deleteFolderAndContents runs to
\* the first await of withFallback
handleFolderDelete(folderId) ==
    /\ ~DeleteRejected(folderId)
    /\ ~Recurses(folderId, folders)
    /\ selectedFolderId' = IF selectedFolderId \in Subtree(folderId, folders)
                           THEN "root" ELSE selectedFolderId
    /\ folders' = {f \in folders : f.id \notin Subtree(folderId, folders)}
    /\ files' = SelectSeq(files, LAMBDA f :
                    f.id \notin FilesIn(Subtree(folderId, folders), files))
    /\ op' = Append(op, NewOp("deleteFolderAndContents", Find(folders, folderId), 0))
    /\ authAttempted' = AuthAttemptedAfterEntry
    /\ UNCHANGED <<pdfVars, scan, searchTerm, input, isChatLoading, chatRequests,
                   storeVars, isUsingLocalMode, currentUser>>

handleToggleFolderLock(folderId) ==
    /\ folderId \in IdsOf(folders)
    /\ LET updatedFolder == [Find(folders, folderId) EXCEPT !.isLocked = ~@]
       IN /\ folders' = {IF f.id = folderId THEN updatedFolder ELSE f : f \in folders}
          /\ op' = Append(op, NewOp("saveFolder", updatedFolder, 0))
    /\ authAttempted' = AuthAttemptedAfterEntry
    /\ UNCHANGED <<pdfVars, scan, files, selectedFolderId, searchTerm, input,
                   isChatLoading, chatRequests, storeVars, isUsingLocalMode,
                   currentUser>>

\* setFiles(prev => prev.map(f => f.id === fileId ? updatedFile : f))
MapFile(fileList, updatedFile) ==
    [k \in DOMAIN fileList |->
        IF fileList[k].id = updatedFile.id THEN updatedFile ELSE fileList[k]]

handleFileMove(k, targetFolderId) ==
    /\ files[k].folderId # targetFolderId
    /\ LET updatedFile == [files[k] EXCEPT !.folderId = targetFolderId]
       IN /\ files' = MapFile(files, updatedFile)
          /\ op' = Append(op, NewOp("updateFileMetadata", updatedFile, 0))
    /\ authAttempted' = AuthAttemptedAfterEntry
    /\ UNCHANGED <<pdfVars, scan, folders, selectedFolderId, searchTerm, input,
                   isChatLoading, chatRequests, storeVars, isUsingLocalMode,
                   currentUser>>

handleToggleFileLock(k) ==
    /\ LET updatedFile == [files[k] EXCEPT !.isLocked = ~@]
       IN /\ files' = MapFile(files, updatedFile)
          /\ op' = Append(op, NewOp("updateFileMetadata", updatedFile, 0))
    /\ authAttempted' = AuthAttemptedAfterEntry
    /\ UNCHANGED <<pdfVars, scan, folders, selectedFolderId, searchTerm, input,
                   isChatLoading, chatRequests, storeVars, isUsingLocalMode,
                   currentUser>>

(***************************************************************************)
(* The specification of a session that edits the folder tree: a loaded     *)
(* session with two nested folders and two files, the first file locked;   *)
(* the user starts an edit when the store call of the last one has         *)
(* settled.                                                                *)
(***************************************************************************)
MaxEdits == 2

TreeFolders ==
    {RootFolder, Folder("folder-1", "root", FALSE), Folder("folder-2", "folder-1", FALSE)}

TreeFiles ==
    <<StoredFile(1, <<"report", ".", "pdf">>, "pdf", "folder-2",
                 <<KnowledgeFileContent(PageName(1), DensePage)>>, TRUE),
      StoredFile(2, <<"todo", ".", "txt">>, "text", "folder-1",
                 <<KnowledgeFileContent(<<"Text Content">>, SparsePage)>>, FALSE)>>

\* what a write to the cloud store may throw
WriteErrors ==
    {[code |-> "permission-denied",
      message |-> <<"Missing or insufficient permissions", ".">>],
     [code |-> "resource-exhausted", message |-> <<"Quota exceeded", ".">>]}

WriteSettles(o) == FirebaseTaskSettlesWith(o, WriteErrors)

Range(s) == {s[k] : k \in DOMAIN s}

InitTree ==
    /\ job = <<>>
    /\ inflight = {}
    /\ scan = <<>>
    /\ files = TreeFiles
    /\ folders = TreeFolders
    /\ selectedFolderId \in IdsOf(TreeFolders)
    /\ searchTerm = ""
    /\ input = EmptyText
    /\ isChatLoading = FALSE
    /\ chatRequests = <<>>
    /\ isUsingLocalMode \in BOOLEAN
    /\ authAttempted = TRUE
    /\ currentUser = ~isUsingLocalMode
    /\ cloudFiles = IF isUsingLocalMode THEN {} ELSE Range(TreeFiles)
    /\ localFiles = IF isUsingLocalMode THEN Range(TreeFiles) ELSE {}
    /\ cloudFolders = IF isUsingLocalMode THEN {} ELSE TreeFolders
    /\ localFolders = IF isUsingLocalMode THEN TreeFolders ELSE {}
    /\ op = <<>>

\* every store call started has settled
Settled == \A o \in DOMAIN op : op[o].pc \in {"returned", "threw"}

MayEdit == Settled /\ Len(op) < MaxEdits

NextTree ==
    \/ MayEdit /\ handleCreateFolder(selectedFolderId)
    \/ \E moved, target \in IdsOf(folders) : MayEdit /\ handleFolderMove(moved, target)
    \/ \E id \in IdsOf(folders) \ {"root"} : MayEdit /\ handleFolderDelete(id)
    \/ \E id \in IdsOf(folders) \ {"root"} : MayEdit /\ handleToggleFolderLock(id)
    \/ \E k \in DOMAIN files : \E target \in IdsOf(folders) :
          MayEdit /\ handleFileMove(k, target)
    \/ \E k \in DOMAIN files : MayEdit /\ handleToggleFileLock(k)
    \/ \E k \in DOMAIN files : MayEdit /\ handleFileDelete(k)
    \/ \E o \in DOMAIN op : WithFallback(o)
    \/ \E o \in DOMAIN op : WriteSettles(o)
    \/ \E o \in DOMAIN op : FirebaseTaskReads(o)
    \/ \E o \in DOMAIN op : LocalTaskSettles(o)
    \/ \E o \in DOMAIN op : LocalTaskReads(o)
    \/ \E o \in DOMAIN op : LocalTaskDeletes(o)

SpecTree == InitTree /\ [][NextTree]_vars


\* the folders below the folder `id`, at any depth
DescendantsOf(id, all) ==
    GrowSubtree({f.id : f \in {g \in all : g.parentId = id}}, all)

C11_LockedItemsAreNotDeleted ==
    [][/\ \A k \in DOMAIN files :
             files[k].isLocked
             => /\ files[k].id \in {files'[x].id : x \in DOMAIN files'}
                /\ files[k].id \in IdsOf(cloudFiles) => files[k].id \in IdsOf(cloudFiles')
                /\ files[k].id \in IdsOf(localFiles) => files[k].id \in IdsOf(localFiles')
       /\ \A f \in folders :
             (f.isLocked \/ isLockedInside(f.id))
             => /\ f.id \in IdsOf(folders')
                /\ f.id \in IdsOf(cloudFolders) => f.id \in IdsOf(cloudFolders')
                /\ f.id \in IdsOf(localFolders) => f.id \in IdsOf(localFolders')]_vars


\* the folder `id` and the folders that reach it by their parent chain
FolderAndDescendants(id, all) ==
    {id} \cup {g.id : g \in {f \in all : isDescendant(f.id, id, all) = "true"}}

InvalidFileWithoutUrlTest(file) == file.type # "pdf"

InvalidFile(file) == file.type # "pdf" \/ file.url = "none"

\* handleFileRescan, the user confirming, and rescanSinglePdf up to the first
\* next() of the generator
NewFileScan(file, pdf) ==
    IF InvalidFile(file)
    THEN [NewScan("rescanSinglePdf", pdf, file.content)
             EXCEPT !.file = file, !.pc = "rejected", !.error = "Invalid file"]
    ELSE [NewScan("rescanSinglePdf", pdf, file.content) EXCEPT !.file = file]

\* fileToUpdate after the for await loop: the deep copy of `file` with the
\* content the loop wrote
FileToUpdate(g) ==
    [g.file EXCEPT !.content = g.content,
                   !.contentLength = ReduceLength(0, g.content),
                   !.ocrStatus = "ocr_applied",
                   !.lastOcrScan = "now"]

\* rescanSinglePdf when the generator has returned: to the await of
\* updateFileMetadata (local mode) or of updateDoc
RescanPersist(r) ==
    /\ scan[r].pc = "done"
    /\ scan[r].file # NoFile
    /\ IF isUsingLocalMode
       THEN /\ scan' = [scan EXCEPT ![r].pc = "updateFileMetadata",
                                    ![r].updated = FileToUpdate(scan[r]),
                                    ![r].op = Len(op) + 1]
            /\ op' = Append(op, NewOp("updateFileMetadata", FileToUpdate(scan[r]), 0))
            /\ authAttempted' = AuthAttemptedAfterEntry
       ELSE /\ scan' = [scan EXCEPT ![r].pc = "updateDoc",
                                    ![r].updated = FileToUpdate(scan[r])]
            /\ UNCHANGED <<op, authAttempted>>
    /\ UNCHANGED <<pdfVars, appVars, storeVars, isUsingLocalMode, currentUser>>

\* `await updateDoc(doc(db, 'files', file.id), meta)` settles, and with it
\* rescanSinglePdf and handleFileRescan's try block: setFiles, or the catch;
\* in rescanAllPdfs, stats.rescanned++ or the catch of the loop
RescanUpdateDoc(r) ==
    /\ scan[r].pc = "updateDoc"
    /\ \/ /\ scan[r].file.id \in {f.id : f \in cloudFiles}
          /\ cloudFiles' = {f \in cloudFiles : f.id # scan[r].file.id}
                           \cup {scan[r].updated}
          /\ files' = IF scan[r].caller = "rescanSinglePdf"
                      THEN MapFile(files, scan[r].updated) ELSE files
          /\ scan' = [scan EXCEPT ![r].pc = "returned"]
       \/ /\ \E error \in WriteErrors \cup
                          (IF scan[r].file.id \in {f.id : f \in cloudFiles}
                           THEN {} ELSE {NotFound}) :
                scan' = [scan EXCEPT ![r].pc = "rejected", ![r].error = error.code]
          /\ UNCHANGED <<files, cloudFiles>>
    /\ UNCHANGED <<pdfVars, folders, selectedFolderId, searchTerm, input, isChatLoading,
                   chatRequests, localFiles, cloudFolders, localFolders, authVars>>

\* `await updateFileMetadata(...)` has settled: rescanSinglePdf returns
\* fileToUpdate and handleFileRescan calls setFiles, or the error reaches
\* handleFileRescan's catch
RescanResumes(r) ==
    /\ scan[r].pc = "updateFileMetadata"
    /\ op[scan[r].op].pc \in {"returned", "threw"}
    /\ IF op[scan[r].op].pc = "returned"
       THEN /\ files' = IF scan[r].caller = "rescanSinglePdf"
                        THEN MapFile(files, scan[r].updated) ELSE files
            /\ scan' = [scan EXCEPT ![r].pc = "returned"]
       ELSE /\ scan' = [scan EXCEPT ![r].pc = "rejected",
                                    ![r].error = op[scan[r].op].error.code]
            /\ UNCHANGED files
    /\ UNCHANGED <<pdfVars, folders, selectedFolderId, searchTerm, input, isChatLoading,
                   chatRequests, storeVars, authVars>>

(***************************************************************************)
(* The specification of a session in which the user has started the rescan *)
(* of a file and moves, locks and deletes files while it runs.             *)
(***************************************************************************)
MaxFileEdits == 1

LibraryFolders == {RootFolder, Folder("folder-1", "root", FALSE)}

\* a PDF whose stored first page is short, a text file, a PDF without url
LibraryFiles ==
    <<StoredFile(1, <<"report", ".", "pdf">>, "pdf", "folder-1",
                 <<KnowledgeFileContent(PageName(1), SparsePage)>>, FALSE),
      StoredFile(2, <<"todo", ".", "txt">>, "text", "root",
                 <<KnowledgeFileContent(<<"Text Content">>, SparsePage)>>, FALSE),
      [StoredFile(3, <<"draft", ".", "pdf">>, "pdf", "root",
                  <<KnowledgeFileContent(PageName(1), SparsePage)>>, FALSE)
          EXCEPT !.url = "none"]>>

\* the PDF behind the url of the first file, as pdf.js reads it
LibraryPdfs == {<<SparsePage>>, <<DensePage, EmptyText>>}

InitLibrary ==
    /\ job = <<>>
    /\ inflight = {}
    /\ \E k \in DOMAIN LibraryFiles, pdf \in LibraryPdfs :
          scan = <<NewFileScan(LibraryFiles[k], pdf)>>
    /\ files = LibraryFiles
    /\ folders = LibraryFolders
    /\ selectedFolderId = "root"
    /\ searchTerm = ""
    /\ input = EmptyText
    /\ isChatLoading = FALSE
    /\ chatRequests = <<>>
    /\ isUsingLocalMode \in BOOLEAN
    /\ authAttempted = TRUE
    /\ currentUser = ~isUsingLocalMode
    /\ cloudFiles = IF isUsingLocalMode THEN {} ELSE Range(LibraryFiles)
    /\ localFiles = IF isUsingLocalMode THEN Range(LibraryFiles) ELSE {}
    /\ cloudFolders = IF isUsingLocalMode THEN {} ELSE LibraryFolders
    /\ localFolders = IF isUsingLocalMode THEN LibraryFolders ELSE {}
    /\ op = <<>>

\* the edits of the user: store calls started by the handlers
Edits == {o \in DOMAIN op : \A r \in DOMAIN scan : scan[r].op # o}

MayEditFile == Cardinality(Edits) < MaxFileEdits

NextLibrary ==
    \/ \E r \in DOMAIN scan : ScanStart(r)
    \/ \E r \in DOMAIN scan : ScanGetDocument(r)
    \/ \E r \in DOMAIN scan : ScanGetPage(r)
    \/ \E r \in DOMAIN scan : ScanGetTextContent(r)
    \/ \E r \in DOMAIN scan : ScanRender(r)
    \/ \E r \in DOMAIN scan : ScanOcr(r)
    \/ \E r \in DOMAIN scan : ScanConsume(r)
    \/ \E r \in DOMAIN scan : RescanPersist(r)
    \/ \E r \in DOMAIN scan : RescanUpdateDoc(r)
    \/ \E r \in DOMAIN scan : RescanResumes(r)
    \/ \E k \in DOMAIN files : \E target \in IdsOf(folders) :
          MayEditFile /\ handleFileMove(k, target)
    \/ \E k \in DOMAIN files : MayEditFile /\ handleToggleFileLock(k)
    \/ \E k \in DOMAIN files : MayEditFile /\ handleFileDelete(k)
    \/ \E o \in DOMAIN op : WithFallback(o)
    \/ \E o \in DOMAIN op : WriteSettles(o)
    \/ \E o \in DOMAIN op : LocalTaskSettles(o)

SpecLibrary == InitLibrary /\ [][NextLibrary]_vars


\* the record of the file `id` in a store (NoFile when it has none)
RecordOf(store, id) ==
    IF id \in IdsOf(store) THEN CHOOSE f \in store : f.id = id ELSE NoFile

\* the file carries the result of the rescan `g`
HoldsRescanOf(f, g) ==
    /\ f.ocrStatus = "ocr_applied"
    /\ {g.yields[n].pageIndex : n \in DOMAIN g.yields} = 0..(g.numPages - 1)
    /\ \A n \in DOMAIN g.yields :
          /\ g.yields[n].pageIndex + 1 \in DOMAIN f.content
          /\ f.content[g.yields[n].pageIndex + 1] = g.yields[n].content
    /\ f.contentLength = SumLengths(f.content)

\* C14: a rescanSinglePdf that returns returns a file with ocrStatus
\* 'ocr_applied', the yielded entry at every page index of content and
\* contentLength the sum of the text lengths of content, and the record its
\* write leaves in the store (updateDoc in the cloud, updateFileMetadata
\* locally) carries the same; called with a file that is not a PDF or has no
\* url it rejects with 'Invalid file', having yielded and written nothing
C14_RescanResult ==
    [][\A r \in DOMAIN scan :
          /\ scan'[r].pc = "returned" => HoldsRescanOf(scan'[r].updated, scan'[r])
          /\ (scan[r].pc = "updateDoc" /\ scan'[r].pc = "returned")
             => /\ RecordOf(cloudFiles', scan[r].file.id) = scan'[r].updated
                /\ UNCHANGED localFiles
          /\ (/\ scan[r].pc = "updateFileMetadata"
              /\ op[scan[r].op].pc = "localTask"
              /\ op'[scan[r].op].pc = "returned")
             => /\ RecordOf(localFiles', scan[r].file.id) = scan[r].updated
                /\ HoldsRescanOf(RecordOf(localFiles', scan[r].file.id), scan[r])
                /\ UNCHANGED cloudFiles
          /\ (scan[r].file.type # "pdf" \/ scan[r].file.url = "none")
             => /\ scan'[r].pc = "rejected" /\ scan'[r].error = "Invalid file"
                /\ scan'[r].yields = <<>> /\ scan'[r].op = 0
                /\ scan'[r].updated = NoFile]_vars

\* cloud mode: the rescan of the first file, a PDF of two pages, has returned
\* and the record of the file has the two pages; and local mode likewise
C14_Witness ==
    /\ scan[1].pc = "returned"
    /\ scan[1].file.id = 1
    /\ Len(scan[1].updated.content) = 2
    /\ RecordOf(IF isUsingLocalMode THEN localFiles ELSE cloudFiles, 1) = scan[1].updated
    /\ files[1] = scan[1].updated
    /\ scan[1].ocrRequested # {}

\* C15: no intermediate progress is saved.  No step of a rescan before its
\* generator has returned changes the file list or a store; a rescan whose
\* generator threw (getDocument, getPage or getTextContent failing) is
\* rejected for good: it starts no write and never calls setFiles
C15_NoIntermediateProgress ==
    [][\A r \in DOMAIN scan :
          /\ (scan'[r] # scan[r] /\ scan'[r].pc \notin {"returned", "rejected"}
              /\ scan'[r].updated = NoFile)
             => UNCHANGED <<files, storeVars, op>>
          /\ scan[r].pc = "thrown"
             => /\ scan'[r] = scan[r]
                /\ scan[r].thrownBy \in {"getDocument", "getPage", "getTextContent"}
                /\ scan[r].updated = NoFile /\ scan[r].op = 0
          /\ (scan'[r] # scan[r] /\ scan'[r].pc = "thrown")
             => UNCHANGED <<files, storeVars, op>>]_vars

\* the rescan of the first file threw when it fetched its second page, the
\* first page already yielded and consumed: the list and the store hold the
\* file as before
C15_Witness ==
    /\ scan[1].pc = "thrown"
    /\ scan[1].thrownBy = "getPage"
    /\ Len(scan[1].yields) = 1
    /\ scan[1].content # scan[1].file.content
    /\ op = <<>>
    /\ files = LibraryFiles
    /\ cloudFiles \cup localFiles = Range(LibraryFiles)

\* C16: a rescan changes only content, contentLength, ocrStatus and
\* lastOcrScan of the file.  The step in which it completes leaves the
\* folderId and isLocked of the file as they are in the file list, and the
\* step in which its write lands leaves them as they are in the store
C16_RescanKeepsMoveAndLock ==
    [][\A r \in DOMAIN scan :
          /\ (scan[r].pc # "returned" /\ scan'[r].pc = "returned")
             => \A k \in DOMAIN files :
                   files[k].id = scan[r].file.id
                   => /\ files'[k].folderId = files[k].folderId
                      /\ files'[k].isLocked = files[k].isLocked
          /\ (scan[r].pc = "updateDoc" /\ scan'[r].pc = "returned")
             => /\ RecordOf(cloudFiles', scan[r].file.id).folderId
                   = RecordOf(cloudFiles, scan[r].file.id).folderId
                /\ RecordOf(cloudFiles', scan[r].file.id).isLocked
                   = RecordOf(cloudFiles, scan[r].file.id).isLocked
          /\ (/\ scan[r].pc = "updateFileMetadata"
              /\ op[scan[r].op].pc = "localTask"
              /\ op'[scan[r].op].pc = "returned"
              /\ scan[r].file.id \in IdsOf(localFiles))
             => /\ RecordOf(localFiles', scan[r].file.id).folderId
                   = RecordOf(localFiles, scan[r].file.id).folderId
                /\ RecordOf(localFiles', scan[r].file.id).isLocked
                   = RecordOf(localFiles, scan[r].file.id).isLocked]_vars

\* the files handleFileDelete has removed from the list and whose deleteFile
\* call has returned
DeletedIds ==
    {op[o].arg.id : o \in {x \in DOMAIN op : op[x].task = "deleteFile"
                                             /\ op[x].pc = "returned"}}

\* C17: a deleted file does not come back.  In no step does a file whose
\* deletion has completed, and that has no record in a store or no entry in
\* the list, get that record or that entry again
C17_DeletedFileStaysDeleted ==
    [][\A id \in DeletedIds :
          /\ id \notin IdsOf(cloudFiles) => id \notin IdsOf(cloudFiles')
          /\ id \notin IdsOf(localFiles) => id \notin IdsOf(localFiles')
          /\ id \notin ListedIds => id \notin {files'[k].id : k \in DOMAIN files'}]_vars


(***************************************************************************)
(* The specification of a session in which the user drops a text file on   *)
(* the selected folder (handleDrop: no overlay covers the sidebar while    *)
(* processAndSaveFiles runs) and deletes folders and moves files while the *)
(* upload is in progress.                                                  *)
(***************************************************************************)
MaxDropOps == 3

DroppedFiles ==
    <<UploadFile(<<"todo", ".", "txt">>, <<"text", "/", "plain">>, <<>>,
                 Text("txt", 1, MIN_TEXT_LENGTH_FOR_OCR_PER_PAGE - 1, 1))>>

\* handleDrop, files only
handleDrop == ProcessAndSaveFilesOf({DroppedFiles})

InitDrop ==
    /\ job = <<>>
    /\ inflight = {}
    /\ scan = <<>>
    /\ files = <<>>
    /\ folders = LibraryFolders
    /\ selectedFolderId = "folder-1"
    /\ searchTerm = ""
    /\ input = EmptyText
    /\ isChatLoading = FALSE
    /\ chatRequests = <<>>
    /\ isUsingLocalMode \in BOOLEAN
    /\ authAttempted = TRUE
    /\ currentUser = ~isUsingLocalMode
    /\ cloudFiles = {}
    /\ localFiles = {}
    /\ cloudFolders = IF isUsingLocalMode THEN {} ELSE LibraryFolders
    /\ localFolders = IF isUsingLocalMode THEN LibraryFolders ELSE {}
    /\ op = <<>>

NextDrop ==
    \/ handleDrop
    \/ \E j \in DOMAIN job : FileText(j)
    \/ PromiseAll
    \/ \E id \in IdsOf(folders) \ {"root"} :
          Len(op) < MaxDropOps /\ handleFolderDelete(id)
    \/ \E k \in DOMAIN files : \E target \in IdsOf(folders) :
          Len(op) < MaxDropOps /\ handleFileMove(k, target)
    \/ \E o \in DOMAIN op : WithFallback(o)
    \/ \E o \in DOMAIN op : WriteSettles(o)
    \/ \E o \in DOMAIN op : FirebaseTaskReads(o)
    \/ \E o \in DOMAIN op : LocalTaskSettles(o)
    \/ \E o \in DOMAIN op : LocalTaskReads(o)
    \/ \E o \in DOMAIN op : LocalTaskDeletes(o)

SpecDrop == InitDrop /\ [][NextDrop]_vars

\* the folders a deleteFolderAndContents call that has returned has deleted
DeletedFolderIds ==
    UNION {FoldersToDelete(op[o]) :
             o \in {x \in DOMAIN op : op[x].task = "deleteFolderAndContents"
                                      /\ op[x].pc = "returned"}}

\* C18: every file refers to an existing folder.  However uploads, file
\* moves and folder deletions interleave, no file of the file list and no
\* file record of a store has the folderId of a folder whose deletion has
\* completed
C18_NoFileInDeletedFolder ==
    /\ \A k \in DOMAIN files : files[k].folderId \notin DeletedFolderIds
    /\ \A f \in cloudFiles \cup localFiles : f.folderId \notin DeletedFolderIds

(***************************************************************************)
(* firebaseService.ts: rescanAllPdfs.  The call of getFilesMetadata is the *)
(* first withFallback call of the specification; the scan records are the  *)
(* iterations of the loop, in their order.                                 *)
(***************************************************************************)
\* the records of a store in the order getDocs and idbGetAll return them: by
\* their key
RECURSIVE SortById(_)
SortById(store) ==
    IF store = {} THEN <<>>
    ELSE LET first == CHOOSE f \in store : \A g \in store : f.id <= g.id
         IN <<first>> \o SortById(store \ {first})

\* pdfFiles, once getFilesMetadata has returned
PdfFiles == SelectSeq(SortById(op[1].seenFiles), LAMBDA f : f.type = "pdf")

\* an iteration of the loop has ended: stats.rescanned++ after the save, or
\* stats.errors++ in the catch block
Finished(g) == g.pc \in {"returned", "rejected", "thrown"}

Stats ==
    [rescanned |-> Cardinality({r \in DOMAIN scan : scan[r].pc = "returned"}),
     errors |-> Cardinality({r \in DOMAIN scan : scan[r].pc \in {"rejected", "thrown"}})]

\* the loop goes on to the next file
LoopAdvancesUntilAnError ==
    /\ op[1].pc = "returned"
    /\ Len(scan) < Len(PdfFiles)
    /\ scan # <<>> => scan[Len(scan)].pc = "returned"

LoopAdvances ==
    /\ op[1].pc = "returned"
    /\ Len(scan) < Len(PdfFiles)
    /\ scan # <<>> => Finished(scan[Len(scan)])

\* the body of the loop up to the first next() of the generator
NewLoopScan(file, pdf) ==
    IF file.url = "none"
    THEN [NewScan("rescanAllPdfs", pdf, file.content)
             EXCEPT !.file = file, !.pc = "rejected", !.error = "No URL"]
    ELSE [NewScan("rescanAllPdfs", pdf, file.content) EXCEPT !.file = file]

rescanAllPdfs(pdf) ==
    /\ LoopAdvances
    /\ scan' = Append(scan, NewLoopScan(PdfFiles[Len(scan) + 1], pdf))
    /\ UNCHANGED <<pdfVars, appVars, storeVars, authVars>>

\* rescanAllPdfs has returned its stats
Returned ==
    /\ op[1].pc = "returned"
    /\ Len(scan) = Len(PdfFiles)
    /\ \A r \in DOMAIN scan : Finished(scan[r])

(***************************************************************************)
(* The specification of a rescan of all PDFs, started from the admin panel *)
(* (handleRescan) in a loaded session.                                     *)
(***************************************************************************)
\* two PDFs, a text file between them, a PDF without url, a last PDF
ArchiveFiles ==
    LibraryFiles \o
    <<StoredFile(4, <<"report", ".", "pdf">>, "pdf", "root",
                 <<KnowledgeFileContent(PageName(1), DensePage)>>, TRUE)>>

InitArchive ==
    /\ job = <<>>
    /\ inflight = {}
    /\ scan = <<>>
    /\ files = ArchiveFiles
    /\ folders = LibraryFolders
    /\ selectedFolderId = "root"
    /\ searchTerm = ""
    /\ input = EmptyText
    /\ isChatLoading = FALSE
    /\ chatRequests = <<>>
    /\ isUsingLocalMode \in BOOLEAN
    /\ authAttempted = TRUE
    /\ currentUser = ~isUsingLocalMode
    /\ cloudFiles = IF isUsingLocalMode THEN {} ELSE Range(ArchiveFiles)
    /\ localFiles = IF isUsingLocalMode THEN Range(ArchiveFiles) ELSE {}
    /\ cloudFolders = IF isUsingLocalMode THEN {} ELSE LibraryFolders
    /\ localFolders = IF isUsingLocalMode THEN LibraryFolders ELSE {}
    /\ op = <<NewOp("getFilesMetadata", NoFile, 0)>>

NextArchive ==
    \/ \E pdf \in LibraryPdfs : rescanAllPdfs(pdf)
    \/ \E r \in DOMAIN scan : ScanStart(r)
    \/ \E r \in DOMAIN scan : ScanGetDocument(r)
    \/ \E r \in DOMAIN scan : ScanGetPage(r)
    \/ \E r \in DOMAIN scan : ScanGetTextContent(r)
    \/ \E r \in DOMAIN scan : ScanRender(r)
    \/ \E r \in DOMAIN scan : ScanOcr(r)
    \/ \E r \in DOMAIN scan : ScanConsume(r)
    \/ \E r \in DOMAIN scan : RescanPersist(r)
    \/ \E r \in DOMAIN scan : RescanUpdateDoc(r)
    \/ \E r \in DOMAIN scan : RescanResumes(r)
    \/ \E o \in DOMAIN op : WithFallback(o)
    \/ \E o \in DOMAIN op : WriteSettles(o)
    \/ \E o \in DOMAIN op : LocalTaskSettles(o)

SpecArchive == InitArchive /\ [][NextArchive]_vars

\* C20: rescanAllPdfs takes the PDF files one at a time in the order of the
\* list: the iterations are the files of type 'pdf' in that order and only
\* the last one may be unfinished; an iteration that failed does not stop the
\* loop; the stored record of a file whose iteration failed is the record
\* that was read; and when rescanAllPdfs returns, rescanned + errors is the
\* number of files of type 'pdf'
C20_RescanAllCountsEveryPdf ==
    /\ \A r \in DOMAIN scan :
          /\ scan[r].file = PdfFiles[r]
          /\ r < Len(scan) => Finished(scan[r])
          /\ scan[r].pc \in {"rejected", "thrown"}
             => RecordOf(IF op[1].result.from = "cloud" THEN cloudFiles ELSE localFiles,
                         scan[r].file.id) = scan[r].file
    /\ (/\ op[1].pc = "returned"
        /\ Len(scan) < Len(PdfFiles)
        /\ scan # <<>> => Finished(scan[Len(scan)]))
       => ENABLED (\E pdf \in LibraryPdfs : rescanAllPdfs(pdf))
    /\ Returned
       => Stats.rescanned + Stats.errors
          = Cardinality({f \in op[1].seenFiles : f.type = "pdf"})

\* rescanAllPdfs has returned: the first PDF was saved, the PDF without url
\* counts as an error, and the last PDF, after it, failed at its save
C20_Witness ==
    /\ Returned
    /\ Len(scan) = 3
    /\ scan[1].pc = "returned"
    /\ scan[2].pc = "rejected" /\ scan[2].error = "No URL"
    /\ scan[3].pc = "rejected" /\ scan[3].updated # NoFile
    /\ Stats = [rescanned |-> 1, errors |-> 2]

(***************************************************************************)
(* firebaseService.ts: syncStorageToFirestore.  A call is an op whose task *)
(* is "syncStorageToFirestore"; besides the fields of a withFallback call  *)
(* it holds the locals of the cloud task.                                  *)
(***************************************************************************)
MaxSyncs == 2

\* Firebase Storage: what listAll returns for a prefix.  Paths are sequences
\* of segments, the last one of an object being its name.  The app's own
\* uploads are under files/<id>/<name>.
StorageRoot == <<>>

ListResult(items, prefixes) == [items |-> items, prefixes |-> prefixes]

listAll(folderRef) ==
    CASE folderRef = StorageRoot ->
           ListResult(<< <<<<"manual", ".", "pdf">>>>, <<<<"logo", ".", "png">>>> >>,
                      << <<"files">>, <<"import">> >>)
      [] folderRef = <<"import">> ->
           ListResult(<< <<"import", <<"notes", ".", "TXT">>>> >>,
                      << <<"import", "archive">> >>)
      [] folderRef = <<"import", "archive">> ->
           ListResult(<< <<"import", "archive", <<"spec", ".", "docx">>>> >>, <<>>)
      [] OTHER -> ListResult(<<>>, <<>>)

\* what getDownloadURL, extractTextFromPdfUrl, fetch and listAll throw
StorageErrors ==
    {[code |-> "storage/unauthorized",
      message |-> <<"Firebase Storage: User does not have permission to access the object", ".">>]}

\* the texts fetched for a .docx and a .txt object
FetchedTexts == {Text("docx", 0, MIN_TEXT_LENGTH_FOR_OCR_PER_PAGE + 1, 1)}

NoStats == [synced |-> 0, skipped |-> 0, errors |-> 0]

NewSync ==
    [task |-> "syncStorageToFirestore", arg |-> NoFile, caller |-> 0,
     pc |-> EnsureAuthEntry, startedLocal |-> isUsingLocalMode,
     ranCloud |-> FALSE, ranLocal |-> FALSE, cloudError |-> NoError,
     error |-> NoError, result |-> NoReturn,
     step |-> 0, seenFolders |-> {}, seenFiles |-> {}, todo |-> <<>>,
     getFilesMetadata |-> 0, existingPaths |-> {}, stats |-> NoStats,
     folderRef |-> StorageRoot, items |-> <<>>, prefixes |-> <<>>,
     visited |-> <<>>, newFileMetadata |-> NoFile]

IsSync(o) == op[o].task = "syncStorageToFirestore"

\* handleSync: the button is disabled while a sync runs
IsSyncing == \E o \in DOMAIN op : IsSync(o) /\ op[o].pc \notin {"returned", "threw"}

\* generateId(): an id no record has
generateFileId ==
    1 + Cardinality({f.id : f \in cloudFiles \cup localFiles})
      + Cardinality({o \in DOMAIN op : IsSync(o)})

\* existingPaths: allFirestoreFiles.map(f => f.storagePath).filter(Boolean)
ExistingPaths(allFirestoreFiles) == {f.storagePath : f \in allFirestoreFiles} \ {<<>>}

\* the catch block of withFallback around the cloud task
SyncCatch(o, error) ==
    /\ isUsingLocalMode' = (isUsingLocalMode \/ IsPermissionError(error))
    /\ op' = [op EXCEPT ![o] =
                 IF IsPermissionError(error)
                 THEN [@ EXCEPT !.pc = "returned", !.ranLocal = TRUE,
                                !.cloudError = error, !.stats = NoStats,
                                !.result = [from |-> "local", file |-> NoFile]]
                 ELSE [@ EXCEPT !.pc = "threw", !.error = error, !.cloudError = error]]

\* the end of an iteration of processItems: `continue`, or the end of the body
NextItem(s, counter) ==
    [s EXCEPT !.stats = [@ EXCEPT ![counter] = @ + 1],
              !.items = Tail(@),
              !.newFileMetadata = NoFile,
              !.pc = "processItems"]

\* handleSync calls syncStorageToFirestore: in local mode it returns at once
syncStorageToFirestore ==
    /\ ~IsSyncing
    /\ Cardinality({o \in DOMAIN op : IsSync(o)}) < MaxSyncs
    /\ op' = Append(op, IF isUsingLocalMode
                        THEN [NewSync EXCEPT !.pc = "returned"]
                        ELSE NewSync)
    /\ authAttempted' = (IF isUsingLocalMode THEN authAttempted
                         ELSE AuthAttemptedAfterEntry)
    /\ UNCHANGED <<pdfVars, scan, appVars, storeVars, isUsingLocalMode, currentUser>>

\* the task withFallback runs: the local task returns zeros, the cloud task
\* runs to `await getFilesMetadata()`
SyncTask(o) ==
    /\ IsSync(o)
    /\ op[o].pc \in {"firebaseTask", "localTask"}
    /\ IF op[o].pc = "localTask"
       THEN /\ op' = [op EXCEPT ![o].pc = "returned",
                                ![o].result = [from |-> "local", file |-> NoFile]]
            /\ UNCHANGED authAttempted
       ELSE /\ op' = Append([op EXCEPT ![o].pc = "getFilesMetadata",
                                       ![o].getFilesMetadata = Len(op) + 1],
                            NewOp("getFilesMetadata", NoFile, 0))
            /\ authAttempted' = AuthAttemptedAfterEntry
    /\ UNCHANGED <<pdfVars, scan, appVars, storeVars, isUsingLocalMode, currentUser>>

\* `await getFilesMetadata()` settles: existingPaths and `await listAll(rootRef)`,
\* or the error reaches the catch of withFallback
SyncGetFilesMetadataSettles(o) ==
    /\ IsSync(o)
    /\ op[o].pc = "getFilesMetadata"
    /\ LET called == op[op[o].getFilesMetadata]
       IN /\ called.pc \in {"returned", "threw"}
          /\ IF called.pc = "returned"
             THEN /\ op' = [op EXCEPT ![o].pc = "listAll",
                                      ![o].existingPaths = ExistingPaths(called.seenFiles),
                                      ![o].folderRef = StorageRoot]
                  /\ UNCHANGED isUsingLocalMode
             ELSE SyncCatch(o, called.error)
    /\ UNCHANGED <<pdfVars, scan, appVars, storeVars, authAttempted, currentUser>>

\* `await listAll(...)` settles, for the root or in traverseStorage: the items
\* go to processItems, the prefixes are traversed after them (at the root all
\* but the one named 'files')
SyncListAllSettles(o) ==
    /\ IsSync(o)
    /\ op[o].pc = "listAll"
    /\ \/ LET result == listAll(op[o].folderRef)
              prefixes == IF op[o].folderRef = StorageRoot
                          THEN SelectSeq(result.prefixes,
                                         LAMBDA p : p[Len(p)] # "files")
                          ELSE result.prefixes
          IN /\ op' = [op EXCEPT ![o].pc = "processItems",
                                 ![o].items = result.items,
                                 ![o].prefixes = prefixes \o @]
             /\ UNCHANGED isUsingLocalMode
       \/ \E error \in StorageErrors : SyncCatch(o, error)
    /\ UNCHANGED <<pdfVars, scan, appVars, storeVars, authAttempted, currentUser>>

\* processItems at the head of an iteration, and after the last item: the
\* item is skipped or `await getDownloadURL(itemRef)` is reached; the next
\* prefix is listed; the stats are returned
SyncProcessItems(o) ==
    /\ IsSync(o)
    /\ op[o].pc = "processItems"
    /\ op' = [op EXCEPT ![o] =
                 IF @.items # <<>>
                 THEN LET visit == [@ EXCEPT !.visited = Append(@, Head(op[o].items))]
                      IN IF Head(@.items) \in @.existingPaths
                         THEN NextItem(visit, "skipped")
                         ELSE [visit EXCEPT !.pc = "getDownloadURL"]
                 ELSE IF @.prefixes # <<>>
                 THEN [@ EXCEPT !.pc = "listAll", !.folderRef = Head(op[o].prefixes),
                                !.prefixes = Tail(@)]
                 ELSE [@ EXCEPT !.pc = "returned",
                                !.result = [from |-> "cloud", file |-> NoFile]]]
    /\ UNCHANGED <<pdfVars, scan, appVars, storeVars, isUsingLocalMode, authAttempted,
                   currentUser>>

\* `await getDownloadURL(itemRef)` settles: the branch by the name's suffix
SyncGetDownloadURLSettles(o) ==
    /\ IsSync(o)
    /\ op[o].pc = "getDownloadURL"
    /\ LET itemPath == Head(op[o].items)
           itemName == itemPath[Len(itemPath)]
           lower == ToLowerCase(itemName)
       IN \/ op' = [op EXCEPT ![o] =
                       IF EndsWith(lower, <<".", "pdf">>)
                       THEN [@ EXCEPT !.pc = "extractTextFromPdfUrl"]
                       ELSE IF EndsWith(lower, <<".", "docx">>)
                               \/ EndsWith(lower, <<".", "txt">>)
                       THEN [@ EXCEPT !.pc = "fetch"]
                       ELSE NextItem(@, "skipped")]
          \/ op' = [op EXCEPT ![o] = NextItem(@, "errors")]
    /\ UNCHANGED <<pdfVars, scan, appVars, storeVars, isUsingLocalMode, authAttempted,
                   currentUser>>

\* newFileMetadata, with the url of fullFileMetadata
NewFileMetadata(newId, itemPath, type, content, contentLength, ocrStatus) ==
    [id |-> newId, name |-> itemPath[Len(itemPath)], type |-> type,
     folderId |-> "root", content |-> content, contentLength |-> contentLength,
     isLocked |-> FALSE, storagePath |-> itemPath, ocrStatus |-> ocrStatus,
     url |-> "downloadURL"]

\* the awaits of the branch settle (extractTextFromPdfUrl; fetch, arrayBuffer
\* and extractTextFromDocx; fetch and text): `await setDoc(...)` is reached,
\* or the catch of the iteration
SyncExtractSettles(o) ==
    /\ IsSync(o)
    /\ op[o].pc \in {"extractTextFromPdfUrl", "fetch"}
    /\ LET itemPath == Head(op[o].items)
           lower == ToLowerCase(itemPath[Len(itemPath)])
       IN \/ /\ op[o].pc = "extractTextFromPdfUrl"
             /\ \E pdf \in LibraryPdfs :
                  LET content == [i \in DOMAIN pdf |->
                                     KnowledgeFileContent(PageName(i), pdf[i])]
                      ocrStatus == IF OcrRecommended(SumTrimmed(pdf), Len(pdf))
                                   THEN "ocr_recommended" ELSE "text_only"
                  IN op' = [op EXCEPT ![o].pc = "setDoc",
                                      ![o].newFileMetadata =
                                          NewFileMetadata(generateFileId, itemPath, "pdf",
                                                          content, ReduceLength(0, content),
                                                          ocrStatus)]
          \/ /\ op[o].pc = "fetch"
             /\ \E text \in FetchedTexts :
                  LET docx == EndsWith(lower, <<".", "docx">>)
                      content == <<KnowledgeFileContent(
                                      IF docx THEN <<"Document Content">>
                                      ELSE <<"Text Content">>, text)>>
                  IN op' = [op EXCEPT ![o].pc = "setDoc",
                                      ![o].newFileMetadata =
                                          NewFileMetadata(generateFileId, itemPath,
                                                          IF docx THEN "docx" ELSE "text",
                                                          content, Length(text),
                                                          "text_only")]
          \/ op' = [op EXCEPT ![o] = NextItem(@, "errors")]
    /\ UNCHANGED <<pdfVars, scan, appVars, storeVars, isUsingLocalMode, authAttempted,
                   currentUser>>

\* `await setDoc(doc(db, 'files', id), fullFileMetadata)` settles
SyncSetDocSettles(o) ==
    /\ IsSync(o)
    /\ op[o].pc = "setDoc"
    /\ \/ /\ cloudFiles' = cloudFiles \cup {op[o].newFileMetadata}
          /\ op' = [op EXCEPT ![o] =
                       NextItem([@ EXCEPT !.existingPaths =
                                              @ \cup {Head(op[o].items)}],
                                "synced")]
       \/ /\ op' = [op EXCEPT ![o] = NextItem(@, "errors")]
          /\ UNCHANGED cloudFiles
    /\ UNCHANGED <<pdfVars, scan, appVars, localFiles, cloudFolders, localFolders,
                   isUsingLocalMode, authAttempted, currentUser>>

(***************************************************************************)
(* The specification of the data sync of the admin panel: a loaded session *)
(* in which handleSync is run, and run again when the run has ended.       *)
(***************************************************************************)
\* the knowledge base: a file uploaded with the app, and a file an earlier
\* sync imported
SyncedFiles ==
    <<StoredFile(1, <<"report", ".", "pdf">>, "pdf", "folder-1",
                 <<KnowledgeFileContent(PageName(1), DensePage)>>, FALSE),
      NewFileMetadata(2, <<"import", "archive", <<"spec", ".", "docx">>>>, "docx",
                      <<KnowledgeFileContent(<<"Document Content">>, DensePage)>>,
                      Length(DensePage), "text_only")>>

InitSync ==
    /\ job = <<>>
    /\ inflight = {}
    /\ scan = <<>>
    /\ folders = LibraryFolders
    /\ selectedFolderId = "root"
    /\ searchTerm = ""
    /\ input = EmptyText
    /\ isChatLoading = FALSE
    /\ chatRequests = <<>>
    /\ isUsingLocalMode \in BOOLEAN
    /\ authAttempted = TRUE
    /\ currentUser = ~isUsingLocalMode
    /\ files = IF isUsingLocalMode THEN <<>> ELSE SyncedFiles
    /\ cloudFiles = Range(SyncedFiles)
    /\ localFiles = {}
    /\ cloudFolders = LibraryFolders
    /\ localFolders = IF isUsingLocalMode THEN LibraryFolders ELSE {}
    /\ op = <<>>

NextSync ==
    \/ syncStorageToFirestore
    \/ \E o \in DOMAIN op : WithFallback(o)
    \/ \E o \in DOMAIN op : SyncTask(o)
    \/ \E o \in DOMAIN op : ~IsSync(o) /\ FirebaseTaskSettles(o)
    \/ \E o \in DOMAIN op : ~IsSync(o) /\ LocalTaskSettles(o)
    \/ \E o \in DOMAIN op : SyncGetFilesMetadataSettles(o)
    \/ \E o \in DOMAIN op : SyncListAllSettles(o)
    \/ \E o \in DOMAIN op : SyncProcessItems(o)
    \/ \E o \in DOMAIN op : SyncGetDownloadURLSettles(o)
    \/ \E o \in DOMAIN op : SyncExtractSettles(o)
    \/ \E o \in DOMAIN op : SyncSetDocSettles(o)

SpecSync == InitSync /\ [][NextSync]_vars

\* a file record has the path as its storagePath
Registered(itemPath) == \E f \in cloudFiles \cup localFiles : f.storagePath = itemPath

SumOf(stats) == stats.synced + stats.skipped + stats.errors

\* a step of a sync visits a storage object whose path is registered: the
\* object is skipped
SkipsRegistered ==
    \A o \in DOMAIN op :
        (IsSync(o) /\ Len(op'[o].visited) > Len(op[o].visited)
         /\ Registered(op'[o].visited[Len(op'[o].visited)]))
        => /\ op'[o].stats.skipped = op[o].stats.skipped + 1
           /\ op'[o].pc = "processItems"

\* a step imports a file: its path was not registered, it is in the root folder
ImportsUnregisteredIntoRoot ==
    \A f \in cloudFiles' \ cloudFiles :
        /\ ~Registered(f.storagePath)
        /\ f.folderId = "root"

\* a sync has returned its stats: they add up to the objects visited
StatsCountVisited ==
    \A o \in DOMAIN op :
        (IsSync(o) /\ op[o].pc = "returned")
        => SumOf(op[o].stats) = Len(op[o].visited)

\* a sync that returned after a sync that returned without errors
SecondRunImportsNothing ==
    \A a, b \in DOMAIN op :
        (/\ IsSync(a) /\ IsSync(b) /\ a < b
         /\ op[a].pc = "returned" /\ op[b].pc = "returned"
         /\ op[a].stats.errors = 0)
        => op[b].stats.synced = 0

\* C21: syncStorageToFirestore imports only files that are not registered: a
\* storage object whose path is the storagePath of a file record is skipped,
\* an imported file is in the root folder, the stats returned add up to the
\* number of storage objects visited, and a run after a run without errors
\* imports nothing
C21_SyncImportsOnlyUnregistered ==
    /\ [][SkipsRegistered /\ ImportsUnregisteredIntoRoot]_vars
    /\ [](StatsCountVisited /\ SecondRunImportsNothing)

====
